---- MODULE Spec2Model ----
(***************************************************************************)
(* Verification model of the two notebooks of the repository:              *)
(*   - the siamese-network notebook: create_pairs                          *)
(*   - Chapter08/transformer.ipynb: attention, MultiHeadedAttention,       *)
(*     clones, build_model, RandomDataset                                  *)
(* Each part of the program has its own specification (SpecPairs, ...);    *)
(* the variables of the other parts stay at their idle values.             *)
(***************************************************************************)
EXTENDS Integers, Sequences, FiniteSets, TLC

VARIABLES
    \* ---- create_pairs (siamese notebook)
    labels_in,      \* the `labels` argument: function 0..len-1 -> class
    rng,            \* state of the pseudo-random generator behind random.randrange
    cp_pc,          \* "idle" | "loop" | "done"
    cp_d,           \* outer loop variable d
    cp_i,           \* inner loop variable i
    pairs,          \* the local list `pairs` (each entry <<sample, sample>>)
    labels,         \* the local list `labels` after it is rebound to list()
    \* ---- RandomDataset.__init__ (transformer notebook)
    ds_args,        \* the constructor's arguments [V, total_samples, sample_length]
    ds_pc,          \* "idle" | "loop" | "done"
    ds_i,           \* loop variable i
    heap,           \* the dict objects allocated so far: object id -> its items
    sample,         \* the local `sample`: a reference (object id) into heap
    samples,        \* self.samples: a list of references into heap
    drawn,          \* history: the sequence `data` drawn in each iteration
    \* ---- build_model (transformer notebook)
    bm_args,        \* the arguments of build_model
    bm_pc,          \* the statement build_model is at; "done", "error" at the end
    store,          \* the tensor objects allocated so far, and the count of random draws
    bm_locals,      \* the locals attn, ff, position and the constructor arguments built
    bm_model,       \* the local `model`
    bm_ret,         \* the value build_model returned
    fw_in,          \* the arguments of the forward pass made on the returned model
    fw_out,         \* what that forward pass returned
    fw_trace,       \* the module calls that forward pass made, in the order made
    \* ---- a MultiHeadedAttention module of its own (transformer notebook)
    mha_args,       \* the arguments [h, d_model] of the constructor
    mha_pc,         \* "new" | "built" | the exception the constructor raised
    mha_store,      \* the tensor objects of the module
    mha_mod,        \* the module (Unset until constructed)
    mha_calls,      \* the number of forward calls made
    mha_in,         \* the arguments of the last forward call
    mha_out,        \* what the last forward call returned
    \* ---- one call of attention(), one head of one batch element
    at_args,        \* the arguments [query, key, value, mask, training]
    at_pc,          \* "idle" | "args" | "done"
    at_p_attn,      \* the local p_attn as softmax left it, before dropout
    at_ret,         \* the pair attention() returned: [x, p_attn]
    at_self_attn,   \* self.attn of the calling MultiHeadedAttention module
    \* ---- one call of make_std_mask or subsequent_mask (transformer notebook)
    sm_args,        \* the arguments [target, pad]
    sm_pc,          \* "idle" | "args" | "make_std_mask" | "subsequent_mask": the call made
    sm_ret,         \* the mask returned
    tr_batches,     \* len(data_loader): the number of batches the loader yields
    tr_pc,          \* the statement of train_model about to run
    tr_training,    \* model.training
    tr_next,        \* the count enumerate() holds: the index of the next batch
    tr_i,           \* i of the for loop
    tr_reading,     \* TRUE while model.forward is running
    tr_out,         \* out: the number of updates the parameters it was computed from had
    tr_loss,        \* loss
    current_loss,   \* current_loss
    counter,        \* counter
    tr_params,      \* the parameters: the number of optimizer.step updates applied
    tr_grad,        \* the .grad of the parameters: the number of backward passes summed in it
    tr_losses,      \* the loss of every batch so far
    tr_events,      \* the calls made so far, <<name, 1-based batch number>>
    tr_printed,     \* the lines printed: [batch, loss]
    cf_args,        \* the model both passes run on: [N, h, d_model]
    cf_store,       \* the parameter tensors of one MultiHeadedAttention module
    cf_mha,         \* the attributes of one MultiHeadedAttention module but attn
    cf_attn,        \* self.attn of every MultiHeadedAttention module of the model
    cf_in,          \* the input of each pass: [source, target] lengths
    cf_pc,          \* where each pass is: [k, at], k the attention call it is at
    cf_x,           \* the local activations of each pass: [source, target] shapes
    cf_local,       \* what attention() returned to each pass, not yet assigned
    cf_out          \* what each pass returned

cpVars == <<labels_in, rng, cp_pc, cp_d, cp_i, pairs, labels>>

dsVars == <<ds_args, ds_pc, ds_i, heap, sample, samples, drawn>>

bmVars == <<bm_args, bm_pc, store, bm_locals, bm_model, bm_ret, fw_in, fw_out, fw_trace>>

mhaVars == <<mha_args, mha_pc, mha_store, mha_mod, mha_calls, mha_in, mha_out>>

atVars == <<at_args, at_pc, at_p_attn, at_ret, at_self_attn>>

smVars == <<sm_args, sm_pc, sm_ret>>

trVars == <<tr_batches, tr_pc, tr_training, tr_next, tr_i, tr_reading, tr_out, tr_loss, current_loss, counter, tr_params, tr_grad, tr_losses, tr_events, tr_printed>>

cfVars == <<cf_args, cf_store, cf_mha, cf_attn, cf_in, cf_pc, cf_x, cf_local, cf_out>>

vars == <<cpVars, dsVars, bmVars, mhaVars, atVars, smVars, trVars, cfVars>>

\* what the actions of one part leave alone: the variables of the other parts
notPairs == <<dsVars, bmVars, mhaVars, atVars, smVars, trVars, cfVars>>

notData == <<cpVars, bmVars, mhaVars, atVars, smVars, trVars, cfVars>>

notBuild == <<cpVars, dsVars, mhaVars, atVars, smVars, trVars, cfVars>>

notMHA == <<cpVars, dsVars, bmVars, atVars, smVars, trVars, cfVars>>

notAttention == <<cpVars, dsVars, bmVars, mhaVars, smVars, trVars, cfVars>>

notMask == <<cpVars, dsVars, bmVars, mhaVars, atVars, trVars, cfVars>>

notTrain == <<cpVars, dsVars, bmVars, mhaVars, atVars, smVars, cfVars>>

notConcurrent == <<cpVars, dsVars, bmVars, mhaVars, atVars, smVars, trVars>>

(***************************************************************************)
(* Generic helpers                                                         *)
(***************************************************************************)
Min(S) == CHOOSE x \in S : \A y \in S : x <= y

RECURSIVE SortedSeq(_)
\* the elements of a finite set of integers in ascending order
SortedSeq(S) == IF S = {} THEN << >>
                ELSE LET m == Min(S) IN <<m>> \o SortedSeq(S \ {m})

\* Python's s[k] on a TLA+ sequence (0-based)
At(s, k) == s[k + 1]

(***************************************************************************)
(* create_pairs(inputs, labels)                                            *)
(***************************************************************************)
num_classes == 10

\* largest number of samples a class holds in the explored label arrays
MaxPerClass == 3

\* largest stride of the explored pseudo-random streams
MaxStride == 2

\* inputs[z]: the sample stored at index z (samples are identified by index)
Inputs(z) == z

\* np.where(labels == d)[0]: the indices holding class d, ascending
DigitIndicesOf(lbls, d) == SortedSeq({z \in DOMAIN lbls : lbls[z] = d})

digit_indices == [d \in 0..(num_classes - 1) |-> DigitIndicesOf(labels_in, d)]

\* n = min([len(digit_indices[d]) for d in range(num_classes)]) - 1
cp_n == Min({Len(digit_indices[d]) : d \in 0..(num_classes - 1)}) - 1

\* random.randrange(1, num_classes) read off the generator state: 1..num_classes-1
RandRange_Zero(r) == r.cur

RandRange(r) == 1 + r.cur

RngAdvance(r) == [r EXCEPT !.cur = (r.cur + r.stride) % (num_classes - 1)]

\* the explored label arrays: MaxPerClass rounds over the classes, in ascending
\* or descending class order, with class `small` cut down to `cnt` samples (the
\* samples cut are relabelled to the next class)
LabelArray(small, cnt, rev) ==
    [z \in 0..(num_classes * MaxPerClass - 1) |->
        LET c  == IF rev THEN num_classes - 1 - (z % num_classes) ELSE z % num_classes
            rd == z \div num_classes
        IN  IF c = small /\ rd >= cnt THEN (small + 1) % num_classes ELSE c]

IdlePairs ==
    /\ labels_in = << >>
    /\ rng = [cur |-> 0, stride |-> 0]
    /\ cp_pc = "idle"
    /\ cp_d = 0
    /\ cp_i = 0
    /\ pairs = << >>
    /\ labels = << >>

\* entry of create_pairs: lines 49-54 (pairs = list(); labels = list(); n = ...)
InitPairs ==
    /\ \E small \in 0..(num_classes - 1), cnt \in 0..MaxPerClass, rev \in BOOLEAN :
          labels_in = LabelArray(small, cnt, rev)
    /\ \E c \in 0..(num_classes - 2), s \in 0..MaxStride :
          rng = [cur |-> c, stride |-> s]
    /\ cp_pc = "loop"
    /\ cp_d = 0
    /\ cp_i = 0
    /\ pairs = << >>
    /\ labels = << >>

\* for d in range(num_classes): for i in range(n): is there a next iteration?
CpHasNext == cp_n > 0 /\ cp_d < num_classes

\* range(n) cut one short
CpInnerContinues_Short(i) == i + 1 < cp_n - 1

\* for i in range(n): does the inner loop go on after iteration i?
CpInnerContinues(i) == i + 1 < cp_n

\* one iteration of the loop body, lines 57-63
CreatePairsBody ==
    /\ cp_pc = "loop"
    /\ CpHasNext
    /\ LET d   == cp_d
           i   == cp_i
           p1  == At(digit_indices[d], i)
           p2  == At(digit_indices[d], i + 1)
           inc == RandRange(rng)
           dn  == (d + inc) % num_classes
           q1  == At(digit_indices[d], i)
           q2  == At(digit_indices[dn], i)
       IN  /\ pairs' = pairs \o << <<Inputs(p1), Inputs(p2)>>, <<Inputs(q1), Inputs(q2)>> >>
           /\ labels' = labels \o <<1, 0>>
           /\ rng' = RngAdvance(rng)
           /\ IF CpInnerContinues(i)
              THEN cp_i' = i + 1 /\ cp_d' = d
              ELSE cp_i' = 0 /\ cp_d' = d + 1
    /\ UNCHANGED <<labels_in, cp_pc>>
    /\ UNCHANGED notPairs

\* line 64: return np.array(pairs), np.array(labels)
CreatePairsReturn ==
    /\ cp_pc = "loop"
    /\ ~CpHasNext
    /\ cp_pc' = "done"
    /\ UNCHANGED <<labels_in, rng, cp_d, cp_i, pairs, labels>>
    /\ UNCHANGED notPairs

NextPairs == CreatePairsBody \/ CreatePairsReturn

(***************************************************************************)
(* RandomDataset: tensors are sequences (index k of the code is k + 1 here) *)
(***************************************************************************)
\* largest vocabulary size V explored (tokens are drawn from 1..V-1)
MaxV == 3

\* largest total_samples explored
MaxSamples == 2

\* largest sample_length explored
MaxSampleLen == 3

\* the padding value make_std_mask is called with (line 543)
PadValue == 0

\* np.triu(..., k=0): the diagonal kept in the upper triangle
Triu0(size) == [i \in 1..size |-> [j \in 1..size |-> IF j - i >= 0 THEN 1 ELSE 0]]

\* np.triu(np.ones((size, size)), k=1): 1 strictly above the diagonal, else 0
Triu1(size) == [i \in 1..size |-> [j \in 1..size |-> IF j - i >= 1 THEN 1 ELSE 0]]

\* RandomDataset.subsequent_mask(size): triu(ones, k=1) == 0
subsequent_mask(size) ==
    LET t == Triu1(size) IN [i \in 1..size |-> [j \in 1..size |-> t[i][j] = 0]]

\* RandomDataset.make_std_mask(target, pad): (target != pad), broadcast along the
\* rows, & subsequent_mask(target.size(-1))
make_std_mask(target, pad) ==
    LET size == Len(target)
        sm   == subsequent_mask(size)
    IN  [i \in 1..size |-> [j \in 1..size |-> (target[j] # pad) /\ sm[i][j]]]

\* t[:-1] and t[1:]
AllButLast(t) == SubSeq(t, 1, Len(t) - 1)

AllButFirst(t) == SubSeq(t, 2, Len(t))

\* (t != 0).data.sum()
CountNonZero(t) == Cardinality({k \in 1..Len(t) : t[k] # 0})

\* the items one loop iteration stores into `sample`, lines 533-544
SampleItems(data) ==
    LET source == data
        target == data
    IN  [source       |-> source,
         target       |-> AllButLast(target),
         target_y     |-> AllButFirst(target),
         source_mask  |-> << [j \in 1..Len(source) |-> source[j] # 0] >>,
         target_mask  |-> make_std_mask(AllButLast(target), PadValue),
         tokens_count |-> CountNonZero(AllButFirst(target))]

\* np.random.randint(0, V, ...): the pad value among the tokens drawn
DataDraws_FromZero(V, sample_length) ==
    {d \in [1..sample_length -> 0..(V - 1)] : d[1] = 1}

\* np.random.randint(1, V, size=(sample_length,)) followed by data[0] = 1
DataDraws(V, sample_length) ==
    {d \in [1..sample_length -> 1..(V - 1)] : d[1] = 1}

\* dict()
EmptyDict == << >>

IdleData ==
    /\ ds_args = [V |-> 0, total_samples |-> 0, sample_length |-> 0]
    /\ ds_pc = "idle"
    /\ ds_i = 0
    /\ heap = << >>
    /\ sample = 0
    /\ samples = << >>
    /\ drawn = << >>

\* lines 527-530: self.samples = list(); sample = dict() (one dict, before the loop)
InitData ==
    /\ \E V \in 2..MaxV, total \in 0..MaxSamples, len \in 1..MaxSampleLen :
          ds_args = [V |-> V, total_samples |-> total, sample_length |-> len]
    /\ ds_pc = "loop"
    /\ ds_i = 0
    /\ heap = << EmptyDict >>
    /\ sample = 1
    /\ samples = << >>
    /\ drawn = << >>

\* one iteration of `for i in range(total_samples)`, lines 531-546
DatasetLoopBody ==
    /\ ds_pc = "loop"
    /\ ds_i < ds_args.total_samples
    /\ \E data \in DataDraws(ds_args.V, ds_args.sample_length) :
          /\ heap' = [heap EXCEPT ![sample] = SampleItems(data)]
          /\ drawn' = Append(drawn, data)
    /\ samples' = Append(samples, sample)
    /\ ds_i' = ds_i + 1
    /\ UNCHANGED <<ds_args, ds_pc, sample>>
    /\ UNCHANGED notData

\* the constructor returns
DatasetConstructed ==
    /\ ds_pc = "loop"
    /\ ds_i >= ds_args.total_samples
    /\ ds_pc' = "done"
    /\ UNCHANGED <<ds_args, ds_i, heap, sample, samples, drawn>>
    /\ UNCHANGED notData

\* RandomDataset.__len__
DatasetLen == Len(samples)

\* RandomDataset.__getitem__(idx), idx 0-based
DatasetGetItem(idx) == heap[samples[idx + 1]]

NextData == DatasetLoopBody \/ DatasetConstructed

(***************************************************************************)
(* Modules and their tensors.                                              *)
(* A tensor object (a Parameter or a registered buffer) lives in `store`   *)
(* under an object id.  A module is the map from the dotted path of each   *)
(* of its attributes to a reference to a tensor object (Ref) or to a plain *)
(* value (Val), as named_parameters()/state_dict() name them.              *)
(***************************************************************************)
Ref(id) == [ref |-> id]

Val(x) == [val |-> x]

IsRef(e) == "ref" \in DOMAIN e

\* a local that is not bound (yet), and a module without attributes
Unset == << >>

\* self.<name> = x for a plain value x
Attr(name, x) == (<<name>> :> Val(x))

\* self.<name> = t for a tensor object
TensorAttr(name, id) == (<<name>> :> Ref(id))

\* self.<name> = mod for a sub-module: its paths, prefixed with the name
Child(name, mod) == [q \in {<<name>> \o p : p \in DOMAIN mod} |-> mod[Tail(q)]]

\* mod.<name>: the sub-module held under the name
Sub(mod, name) ==
    [p \in {Tail(q) : q \in {r \in DOMAIN mod : Len(r) > 1 /\ r[1] = name}} |->
        mod[<<name>> \o p]]

\* the paths of a module that hold tensor objects
TensorPaths(mod) == {p \in DOMAIN mod : IsRef(mod[p])}

\* the tensor objects a module reaches
RefsOf(mod) == {mod[p].ref : p \in TensorPaths(mod)}

EmptyStore == [objs |-> << >>, draws |-> 0]

\* a new tensor object: a Parameter or a buffer of the given shape, its values
\* either taken from a fresh random draw (draw > 0) or fixed (ones, zeros, a
\* computed table: draw = 0)
NewTensor(st, kind, shape, random) ==
    LET d == IF random THEN st.draws + 1 ELSE 0
    IN  [id |-> Len(st.objs) + 1,
         st |-> [objs  |-> Append(st.objs,
                              [kind |-> kind, shape |-> shape, draw |-> d, ver |-> 0]),
                 draws |-> IF random THEN st.draws + 1 ELSE st.draws]]

\* copy.deepcopy(mod): every tensor object the module reaches is copied once
\* (the memo keeps sharing inside the module) with the same values
DeepCopy(st, mod) ==
    LET ids  == SortedSeq(RefsOf(mod))
        base == Len(st.objs)
        newId(id) == base + (CHOOSE k \in 1..Len(ids) : ids[k] = id)
    IN  [mod |-> [p \in DOMAIN mod |->
                    IF IsRef(mod[p]) THEN Ref(newId(mod[p].ref)) ELSE mod[p]],
         st  |-> [st EXCEPT !.objs = st.objs \o [k \in 1..Len(ids) |-> st.objs[ids[k]]]]]

\* the module itself n times, no copy
Clones_Shared(st, mod, n) ==
    LET RECURSIVE Acc(_, _)
        Acc(k, acc) == IF k >= n THEN acc ELSE Acc(k + 1, acc @@ Child(ToString(k), mod))
    IN  [mod |-> Acc(0, Unset), st |-> st]

\* clones(module, n): ModuleList([copy.deepcopy(module) for _ in range(n)])
Clones(st, mod, n) ==
    LET RECURSIVE Acc(_, _, _)
        Acc(s, k, acc) ==
            IF k >= n THEN [mod |-> acc, st |-> s]
            ELSE LET c == DeepCopy(s, mod)
                 IN  Acc(c.st, k + 1, acc @@ Child(ToString(k), c.mod))
    IN  Acc(st, 0, Unset)

\* torch.nn.Linear(in_features, out_features): weight [out, in] and bias [out],
\* both randomly initialised
Linear(st, in_features, out_features) ==
    LET w == NewTensor(st, "param", <<out_features, in_features>>, TRUE)
        b == NewTensor(w.st, "param", <<out_features>>, TRUE)
    IN  [mod |-> TensorAttr("weight", w.id) @@ TensorAttr("bias", b.id), st |-> b.st]

\* the outcome of `assert d_model % h == 0` (h = 0 makes the % itself raise)
DivisibleOutcome_NoAssert(h, d_model) ==
    IF h = 0 THEN "ZeroDivisionError" ELSE "ok"

DivisibleOutcome(h, d_model) ==
    IF h = 0 THEN "ZeroDivisionError"
    ELSE IF d_model % h = 0 THEN "ok" ELSE "AssertionError"

\* MultiHeadedAttention.__init__ past its assert
MultiHeadedAttention(st, h, d_model) ==
    LET lin == Linear(st, d_model, d_model)
        cl  == Clones(lin.st, lin.mod, 4)
    IN  [mod |-> Attr("d_k", d_model \div h) @@ Attr("h", h)
                 @@ Child("fc_layers", cl.mod) @@ Attr("attn", Unset),
         st  |-> cl.st]

\* PositionwiseFFN.__init__
PositionwiseFFN(st, d_model, d_ff) ==
    LET w1 == Linear(st, d_model, d_ff)
        w2 == Linear(w1.st, d_ff, d_model)
    IN  [mod |-> Child("w_1", w1.mod) @@ Child("w_2", w2.mod), st |-> w2.st]

\* LayerNorm.__init__: a_2 = ones(features), b_2 = zeros(features)
LayerNorm(st, features) ==
    LET a == NewTensor(st, "param", <<features>>, FALSE)
        b == NewTensor(a.st, "param", <<features>>, FALSE)
    IN  [mod |-> TensorAttr("a_2", a.id) @@ TensorAttr("b_2", b.id), st |-> b.st]

\* SublayerConnection.__init__
SublayerConnection(st, size) ==
    LET ln == LayerNorm(st, size)
    IN  [mod |-> Child("norm", ln.mod), st |-> ln.st]

\* Embeddings.__init__: lut = torch.nn.Embedding(vocab_size, d_model)
Embeddings(st, d_model, vocab_size) ==
    LET w == NewTensor(st, "param", <<vocab_size, d_model>>, TRUE)
    IN  [mod |-> Child("lut", TensorAttr("weight", w.id)) @@ Attr("d_model", d_model),
         st  |-> w.st]

\* max_len, the default of PositionalEncoding.__init__
max_len == 5000

\* the outcome of PositionalEncoding.__init__'s pe[:, 1::2] = cos(position * div_term):
\* the slice has d_model // 2 columns, the right side one column per entry of
\* arange(0, d_model, 2); the assignment broadcasts a single column and raises
\* on any other mismatch
PositionalEncodingOutcome(d_model) ==
    LET target_cols == d_model \div 2
        source_cols == (d_model + 1) \div 2
    IN  IF source_cols = target_cols \/ source_cols = 1 THEN "ok" ELSE "RuntimeError"

\* PositionalEncoding.__init__: register_buffer('pe', pe), pe of shape
\* [1, max_len, d_model], computed (not drawn, not a Parameter)
PositionalEncoding(st, d_model) ==
    LET pe == NewTensor(st, "buffer", <<1, max_len, d_model>>, FALSE)
    IN  [mod |-> TensorAttr("pe", pe.id), st |-> pe.st]

\* EncoderBlock.__init__: keeps the modules it is given, clones 2 sublayer connections
EncoderBlock(st, size, self_attn, ffn) ==
    LET sc == SublayerConnection(st, size)
        cl == Clones(sc.st, sc.mod, 2)
    IN  [mod |-> Child("self_attn", self_attn) @@ Child("ffn", ffn)
                 @@ Child("sublayers", cl.mod) @@ Attr("size", size),
         st  |-> cl.st]

\* Encoder.__init__: blocks = clones(block, N); norm = LayerNorm(block.size)
Encoder(st, block, N) ==
    LET cl == Clones(st, block, N)
        ln == LayerNorm(cl.st, block[<<"size">>].val)
    IN  [mod |-> Child("blocks", cl.mod) @@ Child("norm", ln.mod), st |-> ln.st]

\* DecoderBlock.__init__: keeps the modules it is given, clones 3 sublayer connections
DecoderBlock(st, size, self_attn, encoder_attn, ffn) ==
    LET sc == SublayerConnection(st, size)
        cl == Clones(sc.st, sc.mod, 3)
    IN  [mod |-> Attr("size", size) @@ Child("self_attn", self_attn)
                 @@ Child("encoder_attn", encoder_attn) @@ Child("ffn", ffn)
                 @@ Child("sublayers", cl.mod),
         st  |-> cl.st]

\* Decoder.__init__: blocks, norm, projection = Linear(block.size, vocab_size)
Decoder(st, block, N, vocab_size) ==
    LET cl == Clones(st, block, N)
        ln == LayerNorm(cl.st, block[<<"size">>].val)
        pr == Linear(ln.st, block[<<"size">>].val, vocab_size)
    IN  [mod |-> Child("blocks", cl.mod) @@ Child("norm", ln.mod)
                 @@ Child("projection", pr.mod),
         st  |-> pr.st]

\* torch.nn.Sequential(a, b)
Sequential(a, b) == Child("0", a) @@ Child("1", b)

\* EncoderDecoder.__init__
EncoderDecoder(encoder, decoder, source_embeddings, target_embeddings) ==
    Child("encoder", encoder) @@ Child("decoder", decoder)
    @@ Child("source_embeddings", source_embeddings)
    @@ Child("target_embeddings", target_embeddings)

\* model.parameters(): the Parameter objects the model reaches, each once
Parameters(st, mod) == {id \in RefsOf(mod) : st.objs[id].kind = "param"}

\* no parameter passes the test
XavierApplies_Never(shape) == Len(shape) > 2

\* if p.dim() > 1
XavierApplies(shape) == Len(shape) > 1

\* for p in model.parameters(): if p.dim() > 1: xavier_uniform_(p)  (a fresh
\* random draw written into each such parameter, in place)
XavierInit(st, mod) ==
    LET ids == SortedSeq({id \in Parameters(st, mod) : XavierApplies(st.objs[id].shape)})
    IN  [objs  |-> [k \in 1..Len(st.objs) |->
                      IF \E j \in 1..Len(ids) : ids[j] = k
                      THEN [st.objs[k] EXCEPT
                              !.draw = st.draws + (CHOOSE j \in 1..Len(ids) : ids[j] = k)]
                      ELSE st.objs[k]],
         draws |-> st.draws + Len(ids)]

(***************************************************************************)
(* Forward passes at the level of tensor shapes.  A shape is the sequence  *)
(* of the sizes of its dimensions; ShapeError stands for the exception a   *)
(* shape mismatch raises, and every operation passes it on.                *)
(***************************************************************************)
ShapeError == << -1 >>

IsShape(x) == x # ShapeError

RECURSIVE Numel(_)
\* the number of elements of a tensor of the given shape
Numel(shape) == IF shape = << >> THEN 1 ELSE Head(shape) * Numel(Tail(shape))

Last(shape) == shape[Len(shape)]

\* the shape with its last size replaced
WithLast(shape, n) == [shape EXCEPT ![Len(shape)] = n]

\* the shape with the last k sizes cut off
DropLast(shape, k) == SubSeq(shape, 1, Len(shape) - k)

\* x.transpose(a, b), dimensions counted from 0
Transpose(x, a, b) ==
    IF ~IsShape(x) THEN ShapeError
    ELSE [x EXCEPT ![a + 1] = x[b + 1], ![b + 1] = x[a + 1]]

\* x.view(target) with exactly one size of target given as -1
View(x, target) ==
    IF ~IsShape(x) THEN ShapeError
    ELSE LET known == Numel([k \in 1..Len(target) |-> IF target[k] = -1 THEN 1 ELSE target[k]])
         IN  IF known = 0 \/ Numel(x) % known # 0 THEN ShapeError
             ELSE [k \in 1..Len(target) |->
                     IF target[k] = -1 THEN Numel(x) \div known ELSE target[k]]

\* broadcasting of two shapes (aligned at the last dimension)
Broadcast(a, b) ==
    IF ~IsShape(a) \/ ~IsShape(b) THEN ShapeError
    ELSE LET n  == IF Len(a) >= Len(b) THEN Len(a) ELSE Len(b)
             pa == [k \in 1..n |-> IF k <= n - Len(a) THEN 1 ELSE a[k - (n - Len(a))]]
             pb == [k \in 1..n |-> IF k <= n - Len(b) THEN 1 ELSE b[k - (n - Len(b))]]
         IN  IF \A k \in 1..n : pa[k] = pb[k] \/ pa[k] = 1 \/ pb[k] = 1
             THEN [k \in 1..n |-> IF pa[k] = 1 THEN pb[k] ELSE pa[k]]
             ELSE ShapeError

\* torch.matmul(a, b) for tensors of two or more dimensions
Matmul(a, b) ==
    IF ~IsShape(a) \/ ~IsShape(b) \/ Len(a) < 2 \/ Len(b) < 2 THEN ShapeError
    ELSE LET batch == Broadcast(DropLast(a, 2), DropLast(b, 2))
         IN  IF ~IsShape(batch) \/ a[Len(a)] # b[Len(b) - 1] THEN ShapeError
             ELSE batch \o <<a[Len(a) - 1], b[Len(b)]>>

\* scores.masked_fill(mask == 0, -1e9): the mask must broadcast to the scores
MaskedFill(scores, mask) ==
    IF Broadcast(scores, mask) = scores THEN scores ELSE ShapeError

\* attention(query, key, value, mask, dropout): the shapes of its two results;
\* mask = Unset stands for mask=None
AttentionShapes(query, key, value, mask) ==
    LET scores == Matmul(query, Transpose(key, Len(key) - 2, Len(key) - 1))
        filled == IF mask = Unset THEN scores ELSE MaskedFill(scores, mask)
        p_attn == filled
    IN  [out |-> Matmul(p_attn, value), p_attn |-> p_attn]

\* torch.nn.Linear.forward: the last size must be in_features
LinearForward(st, lin, x) ==
    LET w == st.objs[lin[<<"weight">>].ref].shape
    IN  IF IsShape(x) /\ Len(x) >= 1 /\ Last(x) = w[2] THEN WithLast(x, w[1])
        ELSE ShapeError

\* the heads re-concatenated as one head's width
ConcatWidth_OneHead(h, d_k) == d_k

\* the width of the re-concatenated heads, self.h * self.d_k
ConcatWidth(h, d_k) == h * d_k

\* mask.unsqueeze(1)
Unsqueeze1(mask) == <<mask[1], 1>> \o Tail(mask)

\* Python computes the value of an argument before the call that receives it:
\* TheOne({F(v) : v \in {x}}) is F applied to the computed value of x
TheOne(S) == CHOOSE r \in S : TRUE

\* MultiHeadedAttention.forward(query, key, value, mask)
MHAForward(st, mha, query, key, value, mask) ==
    LET h   == mha[<<"h">>].val
        d_k == mha[<<"d_k">>].val
        m   == IF mask = Unset THEN Unset ELSE Unsqueeze1(mask)
        batch_samples == query[1]
        fc(k) == Sub(Sub(mha, "fc_layers"), ToString(k))
        proj(k, x) == Transpose(View(LinearForward(st, fc(k), x),
                                     <<batch_samples, -1, h, d_k>>), 1, 2)
        Concat(a) == View(Transpose(a.out, 1, 2),
                          <<batch_samples, -1, ConcatWidth(h, d_k)>>)
    IN  TheOne({[out |-> LinearForward(st, fc(3), Concat(a)), attn |-> a.p_attn] :
                   a \in {AttentionShapes(proj(0, query), proj(1, key), proj(2, value), m)}})

\* PositionwiseFFN.forward
FFNForward(st, ffn, x) ==
    LinearForward(st, Sub(ffn, "w_2"), LinearForward(st, Sub(ffn, "w_1"), x))

\* LayerNorm.forward: a_2 * (x - mean) / (std + eps) + b_2
LayerNormForward(st, ln, x) ==
    Broadcast(Broadcast(st.objs[ln[<<"a_2">>].ref].shape, x),
              st.objs[ln[<<"b_2">>].ref].shape)

\* Embeddings.forward on token ids of shape [batch, length]
EmbeddingsForward(st, emb, x) ==
    IF IsShape(x) THEN x \o <<st.objs[emb[<<"lut", "weight">>].ref].shape[2]>>
    ELSE ShapeError

\* PositionalEncoding.forward: x + pe[:, :x.size(1)]
PositionalEncodingForward(st, pos, x) ==
    LET pe == st.objs[pos[<<"pe">>].ref].shape
    IN  IF ~IsShape(x) THEN ShapeError
        ELSE Broadcast(x, <<pe[1], IF x[2] < pe[2] THEN x[2] ELSE pe[2], pe[3]>>)

\* SublayerConnection.forward(x, sublayer) = x + dropout(sublayer(norm(x))),
\* in two halves: self.norm(x), which the sublayer receives ...
SublayerNorm(st, sc, x) == LayerNormForward(st, Sub(sc, "norm"), x)

\* ... and x + self.dropout(y), y being what the sublayer returned
SublayerAdd(x, y) == Broadcast(x, y)

\* EncoderBlock.forward(x, mask)
EncoderBlockForward(st, blk, x, mask) ==
    LET sub(k) == Sub(Sub(blk, "sublayers"), ToString(k))
        SelfAttn(y) == MHAForward(st, Sub(blk, "self_attn"), y, y, y, mask).out
        Ffn(y) == FFNForward(st, Sub(blk, "ffn"), y)
        First(v)  == TheOne({SublayerAdd(v, SelfAttn(n)) : n \in {SublayerNorm(st, sub(0), v)}})
        Second(v) == TheOne({SublayerAdd(v, Ffn(n)) : n \in {SublayerNorm(st, sub(1), v)}})
    IN  TheOne({Second(x1) : x1 \in {First(x)}})

\* DecoderBlock.forward(x, encoder_states, source_mask, target_mask)
DecoderBlockForward(st, blk, x, encoder_states, source_mask, target_mask) ==
    LET sub(k) == Sub(Sub(blk, "sublayers"), ToString(k))
        SelfAttn(y) == MHAForward(st, Sub(blk, "self_attn"), y, y, y, target_mask).out
        EncAttn(y) == MHAForward(st, Sub(blk, "encoder_attn"), y,
                                 encoder_states, encoder_states, source_mask).out
        Ffn(y) == FFNForward(st, Sub(blk, "ffn"), y)
        First(v)  == TheOne({SublayerAdd(v, SelfAttn(n)) : n \in {SublayerNorm(st, sub(0), v)}})
        Second(v) == TheOne({SublayerAdd(v, EncAttn(n)) : n \in {SublayerNorm(st, sub(1), v)}})
        Third(v)  == TheOne({SublayerAdd(v, Ffn(n)) : n \in {SublayerNorm(st, sub(2), v)}})
    IN  TheOne({Third(x2) : x2 \in {TheOne({Second(x1) : x1 \in {First(x)}})}})

\* the number of modules a ModuleList holds
ModuleCount(list) == Cardinality({p[1] : p \in DOMAIN list})

\* Encoder.forward(x, mask): every block in list order, then the norm
EncoderForward(st, enc, x, mask) ==
    LET blocks == Sub(enc, "blocks")
        RECURSIVE Run(_, _)
        Run(k, y) == IF k >= ModuleCount(blocks) THEN y
                     ELSE TheOne({Run(k + 1, z) :
                                    z \in {EncoderBlockForward(st, Sub(blocks, ToString(k)),
                                                               y, mask)}})
    IN  TheOne({LayerNormForward(st, Sub(enc, "norm"), y) : y \in {Run(0, x)}})

\* Decoder.forward: every block in list order, the norm, the projection and
\* log_softmax over the last dimension
DecoderForward(st, dec, x, encoder_states, source_mask, target_mask) ==
    LET blocks == Sub(dec, "blocks")
        RECURSIVE Run(_, _)
        Run(k, y) == IF k >= ModuleCount(blocks) THEN y
                     ELSE TheOne({Run(k + 1, z) :
                                    z \in {DecoderBlockForward(st, Sub(blocks, ToString(k)), y,
                                                               encoder_states, source_mask,
                                                               target_mask)}})
    IN  TheOne({LinearForward(st, Sub(dec, "projection"),
                              LayerNormForward(st, Sub(dec, "norm"), y)) : y \in {Run(0, x)}})

\* torch.nn.Sequential(Embeddings, PositionalEncoding).forward
EmbedForward(st, seq, x) ==
    PositionalEncodingForward(st, Sub(seq, "1"), EmbeddingsForward(st, Sub(seq, "0"), x))

\* EncoderDecoder.forward(source, target, source_mask, target_mask)
EncoderDecoderForward(st, model, source, target, source_mask, target_mask) ==
    LET Encode(embedded) == EncoderForward(st, Sub(model, "encoder"), embedded, source_mask)
        Decode(embedded, encoder_output) ==
            DecoderForward(st, Sub(model, "decoder"), embedded,
                           encoder_output, source_mask, target_mask)
        encoded == TheOne({Encode(embedded) :
                              embedded \in {EmbedForward(st, Sub(model, "source_embeddings"),
                                                         source)}})
    IN  TheOne({Decode(embedded, encoder_output) :
                   encoder_output \in {encoded},
                   embedded \in {EmbedForward(st, Sub(model, "target_embeddings"), target)}})

(***************************************************************************)
(* The same forward pass, call by call.  Every module call (and every      *)
(* tensor operation between them) appends an entry to a tape:              *)
(*   [op, mod, args, shape]                                                *)
(* op is the class or operation, mod the path of the module in the model,  *)
(* args the tape positions of the values passed, shape the shape returned. *)
(* A value is the position of the entry that produced it.                  *)
(***************************************************************************)
RECURSIVE SubAt(_, _)
\* the sub-module under a dotted path
SubAt(mod, path) == IF path = << >> THEN mod ELSE SubAt(Sub(mod, Head(path)), Tail(path))

\* a call returned: its entry goes on the tape, its value is the entry's position
Emit(tape, op, mod, args, shape) ==
    [tape |-> Append(tape, [op |-> op, mod |-> mod, args |-> args, shape |-> shape]),
     id   |-> Len(tape) + 1]

\* the arguments of forward as the first entries of the tape
TraceInputs(source, target, source_mask, target_mask) ==
    << [op |-> "input", mod |-> <<"source">>, args |-> << >>, shape |-> source],
       [op |-> "input", mod |-> <<"target">>, args |-> << >>, shape |-> target],
       [op |-> "input", mod |-> <<"source_mask">>, args |-> << >>, shape |-> source_mask],
       [op |-> "input", mod |-> <<"target_mask">>, args |-> << >>, shape |-> target_mask] >>

\* SublayerConnection.forward, first: self.norm(x)
TraceSublayerNorm(st, model, tape, sc, x) ==
    Emit(tape, "LayerNorm", sc \o <<"norm">>, <<x>>,
         SublayerNorm(st, SubAt(model, sc), tape[x].shape))

\* the residual added first and dropout applied to the sum
TraceSublayerAdd_DropoutLast(tape, sc, x, y) ==
    LET sum == Emit(tape, "add", sc, <<x, y>>, SublayerAdd(tape[x].shape, tape[y].shape))
    IN  Emit(sum.tape, "Dropout", sc \o <<"dropout">>, <<sum.id>>, tape[y].shape)

\* SublayerConnection.forward, last: x + self.dropout(y), y returned by the sublayer
TraceSublayerAdd(tape, sc, x, y) ==
    LET dropped == Emit(tape, "Dropout", sc \o <<"dropout">>, <<y>>, tape[y].shape)
    IN  Emit(dropped.tape, "add", sc, <<x, dropped.id>>,
             SublayerAdd(tape[x].shape, tape[y].shape))

\* a call of a MultiHeadedAttention module
TraceAttention(st, model, tape, mha, query, key, value, mask) ==
    Emit(tape, "MultiHeadedAttention", mha, <<query, key, value, mask>>,
         MHAForward(st, SubAt(model, mha), tape[query].shape, tape[key].shape,
                    tape[value].shape, tape[mask].shape).out)

\* a call of a PositionwiseFFN module
TraceFFN(st, model, tape, ffn, x) ==
    Emit(tape, "PositionwiseFFN", ffn, <<x>>, FFNForward(st, SubAt(model, ffn), tape[x].shape))

\* EncoderBlock.forward(x, mask)
TraceEncoderBlock(st, model, tape, blk, x, mask) ==
    LET sub(k) == blk \o <<"sublayers", ToString(k)>>
        SelfAttn(n) == TraceAttention(st, model, n.tape, blk \o <<"self_attn">>,
                                      n.id, n.id, n.id, mask)
        Ffn(n) == TraceFFN(st, model, n.tape, blk \o <<"ffn">>, n.id)
        First(r) ==
            TheOne({TraceSublayerAdd(y.tape, sub(0), r.id, y.id) :
                       y \in {TheOne({SelfAttn(n) :
                            n \in {TraceSublayerNorm(st, model, r.tape, sub(0), r.id)}})}})
        Second(r) ==
            TheOne({TraceSublayerAdd(y.tape, sub(1), r.id, y.id) :
                       y \in {TheOne({Ffn(n) :
                            n \in {TraceSublayerNorm(st, model, r.tape, sub(1), r.id)}})}})
    IN  TheOne({Second(x1) : x1 \in {First([tape |-> tape, id |-> x])}})

\* the decoder state passed as key and value too
CrossAttentionInputs_DecoderOnly(x, encoder_states) == <<x, x, x>>

\* self.encoder_attn(x, encoder_states, encoder_states, source_mask): query, key, value
CrossAttentionInputs(x, encoder_states) == <<x, encoder_states, encoder_states>>

\* DecoderBlock.forward(x, encoder_states, source_mask, target_mask)
TraceDecoderBlock(st, model, tape, blk, x, encoder_states, source_mask, target_mask) ==
    LET sub(k) == blk \o <<"sublayers", ToString(k)>>
        SelfAttn(n) == TraceAttention(st, model, n.tape, blk \o <<"self_attn">>,
                                      n.id, n.id, n.id, target_mask)
        EncAttn(n) ==
            LET qkv == CrossAttentionInputs(n.id, encoder_states)
            IN  TraceAttention(st, model, n.tape, blk \o <<"encoder_attn">>,
                               qkv[1], qkv[2], qkv[3], source_mask)
        Ffn(n) == TraceFFN(st, model, n.tape, blk \o <<"ffn">>, n.id)
        First(r) ==
            TheOne({TraceSublayerAdd(y.tape, sub(0), r.id, y.id) :
                       y \in {TheOne({SelfAttn(n) :
                            n \in {TraceSublayerNorm(st, model, r.tape, sub(0), r.id)}})}})
        Second(r) ==
            TheOne({TraceSublayerAdd(y.tape, sub(1), r.id, y.id) :
                       y \in {TheOne({EncAttn(n) :
                            n \in {TraceSublayerNorm(st, model, r.tape, sub(1), r.id)}})}})
        Third(r) ==
            TheOne({TraceSublayerAdd(y.tape, sub(2), r.id, y.id) :
                       y \in {TheOne({Ffn(n) :
                            n \in {TraceSublayerNorm(st, model, r.tape, sub(2), r.id)}})}})
    IN  TheOne({Third(x2) :
                   x2 \in {TheOne({Second(x1) : x1 \in {First([tape |-> tape, id |-> x])}})}})

\* Encoder.forward(x, mask)
TraceEncoder(st, model, tape, x, mask) ==
    LET enc == <<"encoder">>
        N == ModuleCount(Sub(SubAt(model, enc), "blocks"))
        RECURSIVE Run(_, _)
        Run(k, r) == IF k >= N THEN r
                     ELSE TheOne({Run(k + 1, z) :
                                    z \in {TraceEncoderBlock(st, model, r.tape,
                                               enc \o <<"blocks", ToString(k)>>, r.id, mask)}})
    IN  TheOne({Emit(r.tape, "LayerNorm", enc \o <<"norm">>, <<r.id>>,
                     LayerNormForward(st, SubAt(model, enc \o <<"norm">>), r.tape[r.id].shape)) :
                   r \in {Run(0, [tape |-> tape, id |-> x])}})

\* Decoder.forward(x, encoder_states, source_mask, target_mask)
TraceDecoder(st, model, tape, x, encoder_states, source_mask, target_mask) ==
    LET dec == <<"decoder">>
        N == ModuleCount(Sub(SubAt(model, dec), "blocks"))
        RECURSIVE Run(_, _)
        Run(k, r) == IF k >= N THEN r
                     ELSE TheOne({Run(k + 1, z) :
                                    z \in {TraceDecoderBlock(st, model, r.tape,
                                               dec \o <<"blocks", ToString(k)>>, r.id,
                                               encoder_states, source_mask, target_mask)}})
        Finish(r) ==
            LET normed == Emit(r.tape, "LayerNorm", dec \o <<"norm">>, <<r.id>>,
                               LayerNormForward(st, SubAt(model, dec \o <<"norm">>),
                                                r.tape[r.id].shape))
                projected == Emit(normed.tape, "Linear", dec \o <<"projection">>, <<normed.id>>,
                                  LinearForward(st, SubAt(model, dec \o <<"projection">>),
                                                normed.tape[normed.id].shape))
            IN  Emit(projected.tape, "log_softmax", dec, <<projected.id>>,
                     projected.tape[projected.id].shape)
    IN  TheOne({Finish(r) : r \in {Run(0, [tape |-> tape, id |-> x])}})

\* a call of a torch.nn.Sequential(Embeddings, PositionalEncoding)
TraceEmbed(st, model, tape, seq, x) ==
    Emit(tape, "Sequential", seq, <<x>>, EmbedForward(st, SubAt(model, seq), tape[x].shape))

\* EncoderDecoder.forward(source, target, source_mask, target_mask); the
\* arguments are at positions 1..4 of the tape
TraceEncoderDecoder(st, model, source, target, source_mask, target_mask) ==
    LET inputs == TraceInputs(source, target, source_mask, target_mask)
        Encode(e) == TraceEncoder(st, model, e.tape, e.id, 3)
        Decode(e, encoder_output) ==
            TraceDecoder(st, model, e.tape, e.id, encoder_output, 3, 4)
        Target(encoder_output) ==
            TheOne({Decode(e, encoder_output.id) :
                       e \in {TraceEmbed(st, model, encoder_output.tape,
                                         <<"target_embeddings">>, 2)}})
    IN  TheOne({Target(encoder_output) :
                   encoder_output \in {TheOne({Encode(e) :
                        e \in {TraceEmbed(st, model, inputs, <<"source_embeddings">>, 1)}})}})

\* largest N (number of stacked blocks) explored
MaxN == 2

\* largest head count h explored
MaxH == 2

\* largest d_model explored
MaxDModel == 4

\* largest d_ff explored
MaxDff == 2

\* largest vocabulary size explored
MaxVocab == 3

\* largest batch size explored
MaxBatch == 2

\* largest sequence length explored
MaxSeqLen == 3

\* largest number of forward calls made on one module
MaxCalls == 2

(***************************************************************************)
(* A MultiHeadedAttention module constructed and called on its own         *)
(***************************************************************************)
IdleMHA ==
    /\ mha_args = [h |-> 0, d_model |-> 0]
    /\ mha_pc = "idle"
    /\ mha_store = EmptyStore
    /\ mha_mod = Unset
    /\ mha_calls = 0
    /\ mha_in = Unset
    /\ mha_out = Unset

\* a call MultiHeadedAttention(h, d_model)
InitMHA ==
    /\ \E h \in 0..MaxH, d_model \in 1..MaxDModel :
          mha_args = [h |-> h, d_model |-> d_model]
    /\ mha_pc = "new"
    /\ mha_store = EmptyStore
    /\ mha_mod = Unset
    /\ mha_calls = 0
    /\ mha_in = Unset
    /\ mha_out = Unset

\* MultiHeadedAttention.__init__
MHAConstruct ==
    /\ mha_pc = "new"
    /\ LET outcome == DivisibleOutcome(mha_args.h, mha_args.d_model)
       IN  IF outcome = "ok"
           THEN LET r == MultiHeadedAttention(mha_store, mha_args.h, mha_args.d_model)
                IN  /\ mha_mod' = r.mod
                    /\ mha_store' = r.st
                    /\ mha_pc' = "built"
           ELSE /\ mha_pc' = outcome
                /\ UNCHANGED <<mha_mod, mha_store>>
    /\ UNCHANGED <<mha_args, mha_calls, mha_in, mha_out>>
    /\ UNCHANGED notMHA

\* the masks a caller passes: None, a padding mask [batch, 1, k_len] or a
\* mask per query position [batch, q_len, k_len]
MaskShapes(batch, q_len, k_len) == {Unset, <<batch, 1, k_len>>, <<batch, q_len, k_len>>}

\* the weights kept only when none are held yet
KeepAttn_FirstOnly(mod, weights) ==
    IF mod[<<"attn">>] = Val(Unset) THEN [mod EXCEPT ![<<"attn">>] = Val(weights)]
    ELSE mod

\* x, self.attn = attention(...): the assignment to self.attn
KeepAttn(mod, weights) == [mod EXCEPT ![<<"attn">>] = Val(weights)]

\* one call of MultiHeadedAttention.forward(query, key, value, mask); the
\* module keeps the weights attention returned in self.attn
MHACall ==
    /\ mha_pc = "built"
    /\ mha_calls < MaxCalls
    /\ \E batch \in 1..MaxBatch, q_len \in 1..MaxSeqLen, k_len \in 1..MaxSeqLen :
       \E mask \in MaskShapes(batch, q_len, k_len) :
          LET query == <<batch, q_len, mha_args.d_model>>
              key   == <<batch, k_len, mha_args.d_model>>
              r     == MHAForward(mha_store, mha_mod, query, key, key, mask)
          IN  /\ mha_in' = [query |-> query, key |-> key, value |-> key, mask |-> mask]
              /\ mha_out' = r.out
              /\ mha_mod' = KeepAttn(mha_mod, r.attn)
    /\ mha_calls' = mha_calls + 1
    /\ UNCHANGED <<mha_args, mha_pc, mha_store>>
    /\ UNCHANGED notMHA

NextMHA == MHAConstruct \/ MHACall

(***************************************************************************)
(* build_model, statement by statement                                     *)
(***************************************************************************)
BuildErrors == {"AssertionError", "ZeroDivisionError", "RuntimeError"}

NoLocals ==
    [attn |-> Unset, ff |-> Unset, position |-> Unset,
     encoder_block |-> Unset, encoder |-> Unset,
     decoder_block |-> Unset, decoder |-> Unset,
     source_embeddings |-> Unset, target_embeddings |-> Unset]

IdleBuild ==
    /\ bm_args = [source_vocabulary |-> 0, target_vocabulary |-> 0,
                  N |-> 0, d_model |-> 0, d_ff |-> 0, h |-> 0]
    /\ bm_pc = "idle"
    /\ store = EmptyStore
    /\ bm_locals = NoLocals
    /\ bm_model = Unset
    /\ bm_ret = Unset
    /\ fw_in = Unset
    /\ fw_out = Unset
    /\ fw_trace = << >>

\* a call build_model(source_vocabulary, target_vocabulary, N, d_model, d_ff, h)
InitBuild ==
    /\ \E sv \in {MaxVocab}, tv \in 2..MaxVocab, N \in 0..MaxN,
          d_model \in 1..MaxDModel, d_ff \in 1..MaxDff, h \in 0..MaxH :
          bm_args = [source_vocabulary |-> sv, target_vocabulary |-> tv,
                     N |-> N, d_model |-> d_model, d_ff |-> d_ff, h |-> h]
    /\ bm_pc = "attn"
    /\ store = EmptyStore
    /\ bm_locals = NoLocals
    /\ bm_model = Unset
    /\ bm_ret = Unset
    /\ fw_in = Unset
    /\ fw_out = Unset
    /\ fw_trace = << >>

\* attn = MultiHeadedAttention(h, d_model)
BuildAttn ==
    /\ bm_pc = "attn"
    /\ LET outcome == DivisibleOutcome(bm_args.h, bm_args.d_model)
       IN  IF outcome = "ok"
           THEN LET r == MultiHeadedAttention(store, bm_args.h, bm_args.d_model)
                IN  /\ bm_locals' = [bm_locals EXCEPT !.attn = r.mod]
                    /\ store' = r.st
                    /\ bm_pc' = "ff"
           ELSE /\ bm_pc' = outcome
                /\ UNCHANGED <<bm_locals, store>>
    /\ UNCHANGED <<bm_args, bm_model, bm_ret, fw_in, fw_out, fw_trace>>
    /\ UNCHANGED notBuild

\* ff = PositionwiseFFN(d_model, d_ff, dropout)
BuildFF ==
    /\ bm_pc = "ff"
    /\ LET r == PositionwiseFFN(store, bm_args.d_model, bm_args.d_ff)
       IN  /\ bm_locals' = [bm_locals EXCEPT !.ff = r.mod]
           /\ store' = r.st
    /\ bm_pc' = "position"
    /\ UNCHANGED <<bm_args, bm_model, bm_ret, fw_in, fw_out, fw_trace>>
    /\ UNCHANGED notBuild

\* position = PositionalEncoding(d_model, dropout)
BuildPosition ==
    /\ bm_pc = "position"
    /\ LET outcome == PositionalEncodingOutcome(bm_args.d_model)
       IN  IF outcome = "ok"
           THEN LET r == PositionalEncoding(store, bm_args.d_model)
                IN  /\ bm_locals' = [bm_locals EXCEPT !.position = r.mod]
                    /\ store' = r.st
                    /\ bm_pc' = "encoder"
           ELSE /\ bm_pc' = outcome
                /\ UNCHANGED <<bm_locals, store>>
    /\ UNCHANGED <<bm_args, bm_model, bm_ret, fw_in, fw_out, fw_trace>>
    /\ UNCHANGED notBuild

\* encoder=Encoder(EncoderBlock(d_model, c(attn), c(ff), dropout), N)
BuildEncoder ==
    /\ bm_pc = "encoder"
    /\ LET a   == DeepCopy(store, bm_locals.attn)
           f   == DeepCopy(a.st, bm_locals.ff)
           blk == EncoderBlock(f.st, bm_args.d_model, a.mod, f.mod)
           enc == Encoder(blk.st, blk.mod, bm_args.N)
       IN  /\ bm_locals' = [bm_locals EXCEPT !.encoder_block = blk.mod,
                                             !.encoder = enc.mod]
           /\ store' = enc.st
    /\ bm_pc' = "decoder"
    /\ UNCHANGED <<bm_args, bm_model, bm_ret, fw_in, fw_out, fw_trace>>
    /\ UNCHANGED notBuild

\* the decoder projecting to the source vocabulary
DecoderVocabulary_Source(args) == args.source_vocabulary

\* the vocab_size build_model passes to Decoder
DecoderVocabulary(args) == args.target_vocabulary

\* decoder=Decoder(DecoderBlock(d_model, c(attn), c(attn), c(ff), dropout), N, target_vocabulary)
BuildDecoder ==
    /\ bm_pc = "decoder"
    /\ LET a1  == DeepCopy(store, bm_locals.attn)
           a2  == DeepCopy(a1.st, bm_locals.attn)
           f   == DeepCopy(a2.st, bm_locals.ff)
           blk == DecoderBlock(f.st, bm_args.d_model, a1.mod, a2.mod, f.mod)
           dec == Decoder(blk.st, blk.mod, bm_args.N, DecoderVocabulary(bm_args))
       IN  /\ bm_locals' = [bm_locals EXCEPT !.decoder_block = blk.mod,
                                             !.decoder = dec.mod]
           /\ store' = dec.st
    /\ bm_pc' = "source_embeddings"
    /\ UNCHANGED <<bm_args, bm_model, bm_ret, fw_in, fw_out, fw_trace>>
    /\ UNCHANGED notBuild

\* source_embeddings=Sequential(Embeddings(d_model, source_vocabulary), c(position))
BuildSourceEmbeddings ==
    /\ bm_pc = "source_embeddings"
    /\ LET e == Embeddings(store, bm_args.d_model, bm_args.source_vocabulary)
           c == DeepCopy(e.st, bm_locals.position)
       IN  /\ bm_locals' = [bm_locals EXCEPT !.source_embeddings = Sequential(e.mod, c.mod)]
           /\ store' = c.st
    /\ bm_pc' = "target_embeddings"
    /\ UNCHANGED <<bm_args, bm_model, bm_ret, fw_in, fw_out, fw_trace>>
    /\ UNCHANGED notBuild

\* target_embeddings=Sequential(Embeddings(d_model, target_vocabulary), c(position))
\* and model = EncoderDecoder(...)
BuildTargetEmbeddings ==
    /\ bm_pc = "target_embeddings"
    /\ LET e == Embeddings(store, bm_args.d_model, bm_args.target_vocabulary)
           c == DeepCopy(e.st, bm_locals.position)
           t == Sequential(e.mod, c.mod)
       IN  /\ bm_locals' = [bm_locals EXCEPT !.target_embeddings = t]
           /\ store' = c.st
           /\ bm_model' = EncoderDecoder(bm_locals.encoder, bm_locals.decoder,
                                         bm_locals.source_embeddings, t)
    /\ bm_pc' = "init"
    /\ UNCHANGED <<bm_args, bm_ret, fw_in, fw_out, fw_trace>>
    /\ UNCHANGED notBuild

\* the Glorot loop over model.parameters()
BuildXavier ==
    /\ bm_pc = "init"
    /\ store' = XavierInit(store, bm_model)
    /\ bm_pc' = "return"
    /\ UNCHANGED <<bm_args, bm_locals, bm_model, bm_ret, fw_in, fw_out, fw_trace>>
    /\ UNCHANGED notBuild

\* return model
BuildReturn ==
    /\ bm_pc = "return"
    /\ bm_ret' = bm_model
    /\ bm_pc' = "done"
    /\ UNCHANGED <<bm_args, bm_locals, bm_model, store, fw_in, fw_out, fw_trace>>
    /\ UNCHANGED notBuild

\* an in-place update of one Parameter of the returned model (what
\* optimizer.step() does to each parameter it is given)
ParameterUpdate ==
    /\ bm_pc = "done"
    /\ \E id \in Parameters(store, bm_ret) :
          store' = [store EXCEPT !.objs[id].ver = @ + 1]
    /\ bm_pc' = "updated"
    /\ UNCHANGED <<bm_args, bm_locals, bm_model, bm_ret, fw_in, fw_out, fw_trace>>
    /\ UNCHANGED notBuild

\* model.forward(source, target, source_mask, target_mask) on the returned model,
\* with a batch of token tensors and the masks RandomDataset builds for them
ModelForward ==
    /\ bm_pc = "done"
    /\ \E batch \in 1..MaxBatch, src_len \in 1..MaxSeqLen, tgt_len \in 1..MaxSeqLen :
          LET source == <<batch, src_len>>
              target == <<batch, tgt_len>>
              source_mask == <<batch, 1, src_len>>
              target_mask == <<batch, tgt_len, tgt_len>>
          IN  /\ fw_in' = [source |-> source, target |-> target,
                           source_mask |-> source_mask, target_mask |-> target_mask]
              /\ fw_out' = EncoderDecoderForward(store, bm_ret, source, target,
                                                 source_mask, target_mask)
              /\ fw_trace' = TraceEncoderDecoder(store, bm_ret, source, target,
                                                 source_mask, target_mask).tape
    /\ bm_pc' = "forwarded"
    /\ UNCHANGED <<bm_args, bm_locals, bm_model, bm_ret, store>>
    /\ UNCHANGED notBuild

NextBuild ==
    \/ BuildAttn
    \/ BuildFF
    \/ BuildPosition
    \/ BuildEncoder
    \/ BuildDecoder
    \/ BuildSourceEmbeddings
    \/ BuildTargetEmbeddings
    \/ BuildXavier
    \/ BuildReturn
    \/ ParameterUpdate
    \/ ModelForward

(***************************************************************************)
(* attention(query, key, value, mask, dropout) on numbers: one head of one *)
(* batch element.  A weight is the pair <<numerator, denominator>>.        *)
(***************************************************************************)
\* largest query and key length explored
MaxAttLen == 2

\* largest number of elements one application of dropout zeroes
MaxDropped == 1

\* the entries a projected query, key or value vector is filled with
ProjectedValues == {-1, 1}

\* the widths d_k of a head explored (math.sqrt(d_k) is a whole number for them)
HeadWidths == {1, 4}

\* -1e9, the score masked_fill writes
MaskFill == -1000000000

\* p of torch.nn.Dropout(p=dropout), dropout=0.1, as the fraction 1/10
DropoutP == <<1, 10>>

\* float32 exp(x) is exactly 0 for x <= -104 (below half the smallest subnormal)
ExpUnderflow == -104

\* exp(-k) for k = 0, 1, ... in units of 10^-7
ExpTable ==
    <<10000000, 3678794, 1353353, 497871, 183156, 67379, 24788, 9119, 3355,
      1234, 454, 167, 61, 23, 8, 3, 1>>

\* exp(x) for a whole x <= 0, in units of 10^-7: 0 once float32 underflows,
\* positive above that
Exp(x) ==
    IF x <= ExpUnderflow THEN 0
    ELSE IF 1 - x <= Len(ExpTable) THEN ExpTable[1 - x]
    ELSE 1

\* math.sqrt(d_k)
Sqrt(n) == CHOOSE r \in 0..n : r * r = n

RECURSIVE SumSeq(_)
SumSeq(s) == IF s = << >> THEN 0 ELSE s[1] + SumSeq(Tail(s))

Max(S) == CHOOSE x \in S : \A y \in S : x >= y

\* torch.matmul(query, key.transpose(-2, -1)) / math.sqrt(d_k)
Scores(query, key) ==
    LET d_k == Len(query[1])
    IN  [i \in 1..Len(query) |->
            [j \in 1..Len(key) |->
                SumSeq([c \in 1..d_k |-> query[i][c] * key[j][c]]) \div Sqrt(d_k)]]

\* the mask broadcast against the scores: a mask with one row serves every row
MaskAt(mask, i, j) == IF Len(mask) = 1 THEN mask[1][j] ELSE mask[i][j]

\* masked_fill with the condition inverted: fills where the mask is set
MaskedFillScores_Inverted(scores, mask) ==
    [i \in DOMAIN scores |->
        [j \in DOMAIN scores[i] |->
            IF MaskAt(mask, i, j) THEN MaskFill ELSE scores[i][j]]]

\* scores.masked_fill(mask == 0, -1e9)
MaskedFillScores(scores, mask) ==
    [i \in DOMAIN scores |->
        [j \in DOMAIN scores[i] |->
            IF ~MaskAt(mask, i, j) THEN MaskFill ELSE scores[i][j]]]

\* softmax along the query dimension (dim=-2) instead of the key dimension
Softmax_OverQueries(scores) ==
    LET Col(j) == [i \in DOMAIN scores |-> scores[i][j]]
        E(i, j) == Exp(scores[i][j] - Max({Col(j)[k] : k \in DOMAIN scores}))
    IN  [i \in DOMAIN scores |->
            [j \in DOMAIN scores[i] |->
                <<E(i, j), SumSeq([k \in DOMAIN scores |-> E(k, j)])>>]]

\* torch.nn.functional.softmax(scores, dim=-1): exp(x - max of the row) over
\* the sum of the row
Softmax(scores) ==
    [i \in DOMAIN scores |->
        LET row == scores[i]
            m   == Max({row[j] : j \in DOMAIN row})
            e   == [j \in DOMAIN row |-> Exp(row[j] - m)]
        IN  [j \in DOMAIN row |-> <<e[j], SumSeq(e)>>]]

\* torch.nn.Dropout(p).forward in training mode: an element is zeroed or
\* scaled by 1 / (1 - p); `kept` says which elements survive
Dropout(w, kept) ==
    [i \in DOMAIN w |->
        [j \in DOMAIN w[i] |->
            <<IF <<i, j>> \in kept THEN w[i][j][1] * DropoutP[2] ELSE 0,
              w[i][j][2] * (DropoutP[2] - DropoutP[1])>>]]

\* the sets of surviving elements dropout can draw: every element survives in
\* evaluation mode
KeptSets(w, training) ==
    LET all == {<<i, j>> : i \in DOMAIN w, j \in DOMAIN w[1]}
    IN  IF training
        THEN {all \ d : d \in {e \in SUBSET all : Cardinality(e) <= MaxDropped}}
        ELSE {all}

\* torch.matmul(p_attn, value): every entry over the denominator of its row
WeightedValues(w, value) ==
    [i \in DOMAIN w |->
        [c \in DOMAIN value[1] |->
            <<SumSeq([j \in DOMAIN value |-> w[i][j][1] * value[j][c]]), w[i][1][2]>>]]

\* the body of attention() up to the softmax, lines 52-60
AttentionWeights(query, key, mask) ==
    LET scores == Scores(query, key)
    IN  Softmax(IF mask # Unset THEN MaskedFillScores(scores, mask) ELSE scores)

\* a vector of width d_k
ConstantVector(d_k, a) == [c \in 1..d_k |-> a]

\* the tensors of `len` vectors of width d_k
Tensors(len, d_k) ==
    {[i \in 1..len |-> ConstantVector(d_k, f[i])] : f \in [1..len -> ProjectedValues]}

\* the masks RandomDataset builds for a target of the given length, and its
\* all-true source mask for a source of that length
DatasetMasks(q_len, k_len) ==
    {<<[j \in 1..k_len |-> TRUE]>>}
    \cup (IF q_len = k_len
          THEN {SampleItems(d).target_mask : d \in DataDraws(MaxV, q_len + 1)}
          ELSE {})

IdleAttention ==
    /\ at_args = Unset
    /\ at_pc = "idle"
    /\ at_p_attn = Unset
    /\ at_ret = Unset
    /\ at_self_attn = Unset

\* the arguments of one call
InitAttention ==
    /\ \E q_len \in 1..MaxAttLen, k_len \in 1..MaxAttLen, d_k \in HeadWidths :
       \E query \in Tensors(q_len, d_k), key \in Tensors(k_len, d_k) :
       \E mask \in {Unset} \cup DatasetMasks(q_len, k_len), training \in BOOLEAN :
          at_args = [query |-> query, key |-> key, value |-> key,
                     mask |-> mask, training |-> training]
    /\ at_pc = "args"
    /\ at_p_attn = Unset
    /\ at_ret = Unset
    /\ at_self_attn = Unset

\* attention(query, key, value, mask): dropout keeps its default None
AttentionCall ==
    /\ at_pc = "args"
    /\ LET w == AttentionWeights(at_args.query, at_args.key, at_args.mask)
       IN  /\ at_p_attn' = w
           /\ at_ret' = [x |-> WeightedValues(w, at_args.value), p_attn |-> w]
    /\ at_pc' = "done"
    /\ UNCHANGED <<at_args, at_self_attn>>
    /\ UNCHANGED notAttention

\* the call MultiHeadedAttention.forward makes, lines 118-120: dropout is
\* self.dropout, which drops only while the module is in training mode, and
\* the weights returned are kept in self.attn
AttentionFromMHA ==
    /\ at_pc = "args"
    /\ LET w == AttentionWeights(at_args.query, at_args.key, at_args.mask)
       IN  /\ at_p_attn' = w
           /\ \E kept \in KeptSets(w, at_args.training) :
                 LET dropped == IF at_args.training THEN Dropout(w, kept) ELSE w
                 IN  /\ at_ret' = [x |-> WeightedValues(dropped, at_args.value),
                                   p_attn |-> dropped]
                     /\ at_self_attn' = dropped
    /\ at_pc' = "done"
    /\ UNCHANGED at_args
    /\ UNCHANGED notAttention

NextAttention == AttentionCall \/ AttentionFromMHA

(***************************************************************************)
(* RandomDataset.make_std_mask and subsequent_mask called on their own     *)
(***************************************************************************)
IdleMask ==
    /\ sm_args = Unset
    /\ sm_pc = "idle"
    /\ sm_ret = Unset

\* the arguments of one call: a one-dimensional target, pad tokens included,
\* and the pad value
InitMask ==
    /\ \E len \in 0..MaxSampleLen :
       \E target \in [1..len -> 0..(MaxV - 1)], pad \in 0..(MaxV - 1) :
          sm_args = [target |-> target, pad |-> pad]
    /\ sm_pc = "args"
    /\ sm_ret = Unset

\* RandomDataset.make_std_mask(target, pad)
MakeStdMaskCall ==
    /\ sm_pc = "args"
    /\ sm_ret' = make_std_mask(sm_args.target, sm_args.pad)
    /\ sm_pc' = "make_std_mask"
    /\ UNCHANGED sm_args
    /\ UNCHANGED notMask

\* RandomDataset.subsequent_mask(target.size(-1))
SubsequentMaskCall ==
    /\ sm_pc = "args"
    /\ sm_ret' = subsequent_mask(Len(sm_args.target))
    /\ sm_pc' = "subsequent_mask"
    /\ UNCHANGED sm_args
    /\ UNCHANGED notMask

NextMask == MakeStdMaskCall \/ SubsequentMaskCall

(***************************************************************************)
(* train_model: one pass over the data loader                              *)
(***************************************************************************)
MaxBatches == 11

\* the loss of a batch, in arbitrary units
LossValues == {1, 3}

\* the interval of the statistics: counter % 5 == 0
ReportEvery == 5

RECURSIVE GCD(_, _)
GCD(a, b) == IF b = 0 THEN a ELSE GCD(b, a % b)

\* current_loss / counter: true division, a fraction in lowest terms
TrueDiv(a, b) == <<a \div GCD(a, b), b \div GCD(a, b)>>

\* the statements of the loop body in a different order: step before backward
Following_StepFirst(pc) ==
    CASE pc = "forward"    -> "forwarding"
      [] pc = "forwarding" -> "loss"
      [] pc = "loss"       -> "step"
      [] pc = "step"       -> "backward"
      [] pc = "backward"   -> "zero_grad"
      [] pc = "zero_grad"  -> "statistics"
      [] pc = "statistics" -> "for"

\* the statement after each statement of the loop body, in program order
Following(pc) ==
    CASE pc = "forward"    -> "forwarding"
      [] pc = "forwarding" -> "loss"
      [] pc = "loss"       -> "backward"
      [] pc = "backward"   -> "step"
      [] pc = "step"       -> "zero_grad"
      [] pc = "zero_grad"  -> "statistics"
      [] pc = "statistics" -> "for"

\* a report after every batch
ReportDue_EveryBatch(c) == TRUE

\* if counter % 5 == 0
ReportDue(c) == c % ReportEvery = 0

\* a call of the loop body is made for batch i + 1
Called(name) == Append(tr_events, <<name, tr_i + 1>>)

IdleTrain ==
    /\ tr_batches = 0
    /\ tr_pc = "idle"
    /\ tr_training = FALSE
    /\ tr_next = 0
    /\ tr_i = Unset
    /\ tr_reading = FALSE
    /\ tr_out = Unset
    /\ tr_loss = Unset
    /\ current_loss = Unset
    /\ counter = Unset
    /\ tr_params = 0
    /\ tr_grad = 0
    /\ tr_losses = << >>
    /\ tr_events = << >>
    /\ tr_printed = << >>

\* train_model(model, loss_function, optimizer, data_loader) is called with a
\* fresh model (no update applied, no gradient) in either mode
InitTrain ==
    /\ tr_batches \in 0..MaxBatches
    /\ tr_pc = "called"
    /\ tr_training \in BOOLEAN
    /\ tr_next = 0
    /\ tr_i = Unset
    /\ tr_reading = FALSE
    /\ tr_out = Unset
    /\ tr_loss = Unset
    /\ current_loss = Unset
    /\ counter = Unset
    /\ tr_params = 0
    /\ tr_grad = 0
    /\ tr_losses = << >>
    /\ tr_events = << >>
    /\ tr_printed = << >>

\* model.train(); current_loss = 0.0; counter = 0
TrainSetup ==
    /\ tr_pc = "called"
    /\ tr_training' = TRUE
    /\ current_loss' = 0
    /\ counter' = 0
    /\ tr_pc' = "for"
    /\ UNCHANGED <<tr_batches, tr_next, tr_i, tr_reading, tr_out, tr_loss, tr_params,
                   tr_grad, tr_losses, tr_events, tr_printed>>
    /\ UNCHANGED notTrain

\* for i, batch in enumerate(data_loader): the next batch, or the end of the loop
TrainNextBatch ==
    /\ tr_pc = "for"
    /\ IF tr_next < tr_batches
       THEN /\ tr_i' = tr_next
            /\ tr_next' = tr_next + 1
            /\ tr_pc' = "forward"
       ELSE /\ tr_pc' = "done"
            /\ UNCHANGED <<tr_i, tr_next>>
    /\ UNCHANGED <<tr_batches, tr_training, tr_reading, tr_out, tr_loss, current_loss,
                   counter, tr_params, tr_grad, tr_losses, tr_events, tr_printed>>
    /\ UNCHANGED notTrain

\* out = model.forward(...): the call starts reading the parameters
TrainForward ==
    /\ tr_pc = "forward"
    /\ tr_reading' = TRUE
    /\ tr_out' = tr_params
    /\ tr_events' = Called("forward")
    /\ tr_pc' = Following(tr_pc)
    /\ UNCHANGED <<tr_batches, tr_training, tr_next, tr_i, tr_loss, current_loss, counter,
                   tr_params, tr_grad, tr_losses, tr_printed>>
    /\ UNCHANGED notTrain

\* model.forward returns
TrainForwardReturn ==
    /\ tr_pc = "forwarding"
    /\ tr_reading' = FALSE
    /\ tr_pc' = Following(tr_pc)
    /\ UNCHANGED <<tr_batches, tr_training, tr_next, tr_i, tr_out, tr_loss, current_loss,
                   counter, tr_params, tr_grad, tr_losses, tr_events, tr_printed>>
    /\ UNCHANGED notTrain

\* loss = loss_function(out..., batch['target_y']...)
TrainLoss ==
    /\ tr_pc = "loss"
    /\ \E l \in LossValues :
          /\ tr_loss' = l
          /\ tr_losses' = Append(tr_losses, l)
    /\ tr_events' = Called("loss")
    /\ tr_pc' = Following(tr_pc)
    /\ UNCHANGED <<tr_batches, tr_training, tr_next, tr_i, tr_reading, tr_out, current_loss,
                   counter, tr_params, tr_grad, tr_printed>>
    /\ UNCHANGED notTrain

\* loss.backward(): the gradients are added to .grad
TrainBackward ==
    /\ tr_pc = "backward"
    /\ tr_grad' = tr_grad + 1
    /\ tr_events' = Called("backward")
    /\ tr_pc' = Following(tr_pc)
    /\ UNCHANGED <<tr_batches, tr_training, tr_next, tr_i, tr_reading, tr_out, tr_loss,
                   current_loss, counter, tr_params, tr_losses, tr_printed>>
    /\ UNCHANGED notTrain

\* optimizer.step(): the parameters are updated from .grad
OptimizerStep ==
    /\ tr_pc = "step"
    /\ tr_params' = tr_params + 1
    /\ tr_events' = Called("step")
    /\ tr_pc' = Following(tr_pc)
    /\ UNCHANGED <<tr_batches, tr_training, tr_next, tr_i, tr_reading, tr_out, tr_loss,
                   current_loss, counter, tr_grad, tr_losses, tr_printed>>
    /\ UNCHANGED notTrain

\* optimizer.zero_grad()
OptimizerZeroGrad ==
    /\ tr_pc = "zero_grad"
    /\ tr_grad' = 0
    /\ tr_events' = Called("zero_grad")
    /\ tr_pc' = Following(tr_pc)
    /\ UNCHANGED <<tr_batches, tr_training, tr_next, tr_i, tr_reading, tr_out, tr_loss,
                   current_loss, counter, tr_params, tr_losses, tr_printed>>
    /\ UNCHANGED notTrain

\* current_loss += loss; counter += 1; if counter % 5 == 0: print(...) and
\* reset both. The iteration ends here.
TrainStatistics ==
    /\ tr_pc = "statistics"
    /\ IF ReportDue(counter + 1)
       THEN /\ tr_printed' = Append(tr_printed,
                                    [batch |-> tr_i + 1,
                                     loss  |-> TrueDiv(current_loss + tr_loss, counter + 1)])
            /\ current_loss' = 0
            /\ counter' = 0
       ELSE /\ current_loss' = current_loss + tr_loss
            /\ counter' = counter + 1
            /\ UNCHANGED tr_printed
    /\ tr_pc' = Following(tr_pc)
    /\ UNCHANGED <<tr_batches, tr_training, tr_next, tr_i, tr_reading, tr_out, tr_loss,
                   tr_params, tr_grad, tr_losses, tr_events>>
    /\ UNCHANGED notTrain

NextTrain ==
    \/ TrainSetup
    \/ TrainNextBatch
    \/ TrainForward
    \/ TrainForwardReturn
    \/ TrainLoss
    \/ TrainBackward
    \/ OptimizerStep
    \/ OptimizerZeroGrad
    \/ TrainStatistics

(***************************************************************************)
(* Two forward passes of one model, run in two threads                     *)
(***************************************************************************)
Passes == {1, 2}

\* the path of block i of the encoder / decoder ModuleList
BlockPath(stack, i) == <<stack, "blocks", ToString(i)>>

\* the MultiHeadedAttention calls of one forward pass over N blocks, in call
\* order: which module, and which activations are its query and its key/value
AttentionCalls(N) ==
    [k \in 1..N |->
        [mod |-> BlockPath("encoder", k - 1) \o <<"self_attn">>,
         query |-> "source", key |-> "source", mask |-> "source_mask"]]
    \o [k \in 1..(2 * N) |->
        IF k % 2 = 1
        THEN [mod |-> BlockPath("decoder", (k - 1) \div 2) \o <<"self_attn">>,
              query |-> "target", key |-> "target", mask |-> "target_mask"]
        ELSE [mod |-> BlockPath("decoder", (k - 1) \div 2) \o <<"encoder_attn">>,
              query |-> "target", key |-> "source", mask |-> "source_mask"]]

\* the embedded source and target of a pass over one sample, and its masks
PassTensors(input, d_model) ==
    [source      |-> <<1, input.source, d_model>>,
     target      |-> <<1, input.target, d_model>>,
     source_mask |-> <<1, 1, input.source>>,
     target_mask |-> <<1, input.target, input.target>>]

\* the call of one attention module by a pass holding the activations x
AttentionResult(st, mha, call, x) ==
    MHAForward(st, mha, x[call.query], x[call.key], x[call.key], x[call.mask])

\* the activations of the pass once the sublayer has added what the call returned
AfterAttention(x, call, r) == [x EXCEPT ![call.query] = SublayerAdd(@, r.out)]

IdleConcurrent ==
    /\ cf_args = Unset
    /\ cf_store = EmptyStore
    /\ cf_mha = Unset
    /\ cf_attn = Unset
    /\ cf_in = Unset
    /\ cf_pc = Unset
    /\ cf_x = Unset
    /\ cf_local = Unset
    /\ cf_out = Unset

\* a built model in which no forward pass has run yet, and two passes about
\* to start, each on its own sample (target = source[:-1])
InitConcurrent ==
    /\ \E N \in 1..MaxN, h \in 1..MaxH :
       \E d_model \in {d \in 1..MaxDModel : d % h = 0} :
       \E lens \in [Passes -> 2..MaxSeqLen] :
          LET made == MultiHeadedAttention(EmptyStore, h, d_model)
              input == [p \in Passes |-> [source |-> lens[p], target |-> lens[p] - 1]]
          IN  /\ cf_args = [N |-> N, h |-> h, d_model |-> d_model]
              /\ cf_store = made.st
              /\ cf_mha = made.mod
              /\ cf_attn = [m \in {AttentionCalls(N)[k].mod : k \in 1..(3 * N)} |-> Val(Unset)]
              /\ cf_in = input
              /\ cf_x = [p \in Passes |-> PassTensors(input[p], d_model)]
    /\ cf_pc = [p \in Passes |-> [k |-> 1, at |-> "call"]]
    /\ cf_local = [p \in Passes |-> Unset]
    /\ cf_out = [p \in Passes |-> Unset]

\* a pass evaluates attention(query, key, value, mask, self.dropout) of its
\* next attention module: the right-hand side of x, self.attn = attention(...)
PassAttention ==
    /\ cf_pc # Unset
    /\ \E p \in Passes :
          /\ cf_pc[p].at = "call"
          /\ cf_pc[p].k <= 3 * cf_args.N
          /\ cf_local' = [cf_local EXCEPT ![p] =
                 AttentionResult(cf_store, cf_mha, AttentionCalls(cf_args.N)[cf_pc[p].k], cf_x[p])]
          /\ cf_pc' = [cf_pc EXCEPT ![p].at = "keep"]
    /\ UNCHANGED <<cf_args, cf_store, cf_mha, cf_attn, cf_in, cf_x, cf_out>>
    /\ UNCHANGED notConcurrent

\* the pass assigns x and self.attn, and goes on to its next attention module
PassKeepAttn ==
    /\ cf_pc # Unset
    /\ \E p \in Passes :
          /\ cf_pc[p].at = "keep"
          /\ LET call == AttentionCalls(cf_args.N)[cf_pc[p].k]
             IN  /\ cf_attn' = [cf_attn EXCEPT ![call.mod] = Val(cf_local[p].attn)]
                 /\ cf_x' = [cf_x EXCEPT ![p] = AfterAttention(@, call, cf_local[p])]
          /\ cf_pc' = [cf_pc EXCEPT ![p] = [k |-> @.k + 1, at |-> "call"]]
    /\ UNCHANGED <<cf_args, cf_store, cf_mha, cf_in, cf_local, cf_out>>
    /\ UNCHANGED notConcurrent

\* the pass returns what it computed from its own activations
PassReturn ==
    /\ cf_pc # Unset
    /\ \E p \in Passes :
          /\ cf_pc[p].at = "call"
          /\ cf_pc[p].k > 3 * cf_args.N
          /\ cf_out' = [cf_out EXCEPT ![p] = cf_x[p].target]
          /\ cf_pc' = [cf_pc EXCEPT ![p].at = "done"]
    /\ UNCHANGED <<cf_args, cf_store, cf_mha, cf_attn, cf_in, cf_x, cf_local>>
    /\ UNCHANGED notConcurrent

NextConcurrent == PassAttention \/ PassKeepAttn \/ PassReturn

(***************************************************************************)
(* Specifications, one per part of the program                             *)
(***************************************************************************)
PairsStart == InitPairs /\ IdleData /\ IdleBuild /\ IdleMHA /\ IdleAttention /\ IdleMask /\ IdleTrain /\ IdleConcurrent

SpecPairs == PairsStart /\ [][NextPairs]_vars

DataStart == InitData /\ IdlePairs /\ IdleBuild /\ IdleMHA /\ IdleAttention /\ IdleMask /\ IdleTrain /\ IdleConcurrent

SpecData == DataStart /\ [][NextData]_vars

BuildStart == InitBuild /\ IdlePairs /\ IdleData /\ IdleMHA /\ IdleAttention /\ IdleMask /\ IdleTrain /\ IdleConcurrent

SpecBuild == BuildStart /\ [][NextBuild]_vars

MHAStart == InitMHA /\ IdlePairs /\ IdleData /\ IdleBuild /\ IdleAttention /\ IdleMask /\ IdleTrain /\ IdleConcurrent

SpecMHA == MHAStart /\ [][NextMHA]_vars

AttentionStart == InitAttention /\ IdlePairs /\ IdleData /\ IdleBuild /\ IdleMHA /\ IdleMask /\ IdleTrain /\ IdleConcurrent

SpecAttention == AttentionStart /\ [][NextAttention]_vars

MaskStart == InitMask /\ IdlePairs /\ IdleData /\ IdleBuild /\ IdleMHA /\ IdleAttention /\ IdleTrain /\ IdleConcurrent

SpecMask == MaskStart /\ [][NextMask]_vars

TrainStart == InitTrain /\ IdlePairs /\ IdleData /\ IdleBuild /\ IdleMHA /\ IdleAttention /\ IdleMask /\ IdleConcurrent

SpecTrain == TrainStart /\ [][NextTrain]_vars

ConcurrentStart == InitConcurrent /\ IdlePairs /\ IdleData /\ IdleBuild /\ IdleMHA /\ IdleAttention /\ IdleMask /\ IdleTrain

SpecConcurrent == ConcurrentStart /\ [][NextConcurrent]_vars

\* the masks make_std_mask builds for the targets of RandomDataset of one length
StdMasks(size) ==
    {make_std_mask(AllButLast(d), PadValue) : d \in DataDraws(MaxV, size + 1)}

\* C1: when the mask is one make_std_mask built for a target, the weight
\* attention() computes at (i, j) is exactly zero before dropout whenever
\* j > i, for every query position i and key position j.
C1_CausalWeightsZero ==
    (at_pc = "done" /\ at_args.mask \in StdMasks(Len(at_args.query))) =>
        \A i \in DOMAIN at_p_attn : \A j \in DOMAIN at_p_attn[i] :
            j > i => at_p_attn[i][j][1] = 0 /\ at_p_attn[i][j][2] > 0

\* a masked position whose score, unmasked, would have been the largest of its row
C1_Witness ==
    /\ at_pc = "done"
    /\ Len(at_args.query) = 2
    /\ at_args.mask \in StdMasks(2)
    /\ at_args.query[1][1] = 1 /\ at_args.key[1][1] = -1 /\ at_args.key[2][1] = 1
    /\ at_p_attn[1][2][1] = 0
    /\ at_p_attn[2][1][1] > 0

\* no position is masked: no mask, or a mask that is true everywhere
Unmasked ==
    \/ at_args.mask = Unset
    \/ \A i \in DOMAIN at_args.mask : \A j \in DOMAIN at_args.mask[i] : at_args.mask[i][j]

\* every row of the weights sums to 1: the numerators add up to the denominator
RowsSumToOne(w) ==
    \A i \in DOMAIN w :
        /\ w[i][1][2] > 0
        /\ \A j \in DOMAIN w[i] : w[i][j][2] = w[i][1][2]
        /\ SumSeq([j \in DOMAIN w[i] |-> w[i][j][1]]) = w[i][1][2]

\* the call came from MultiHeadedAttention.forward
FromMHA == at_self_attn # Unset

\* C2 as stated: with no position masked every row of the weights attention()
\* returns sums to 1, the calls made by MultiHeadedAttention.forward included.
\* Fails for those calls while the module is in training mode.
C2_AsStated ==
    (at_pc = "done" /\ Unmasked) => RowsSumToOne(at_ret.p_attn)

\* C2 amended: with no position masked every row of the weights sums to 1
\* before dropout, and the rows of the returned weights do when no dropout was
\* passed or the module is in evaluation mode; MultiHeadedAttention keeps the
\* weights that were returned.
C2_RowsSumToOne ==
    (at_pc = "done" /\ Unmasked) =>
        /\ RowsSumToOne(at_p_attn)
        /\ (~FromMHA \/ ~at_args.training) =>
               /\ at_ret.p_attn = at_p_attn
               /\ RowsSumToOne(at_ret.p_attn)
        /\ FromMHA => at_self_attn = at_ret.p_attn

C2_Witness ==
    /\ at_pc = "done"
    /\ at_args.mask = Unset
    /\ FromMHA /\ ~at_args.training
    /\ Len(at_args.query) = 1 /\ Len(at_args.key) = 2
    /\ at_ret.p_attn[1][1][1] > at_ret.p_attn[1][2][1]
    /\ RowsSumToOne(at_ret.p_attn)


(***************************************************************************)
(* Claims about create_pairs                                               *)
(***************************************************************************)
\* the class of a sample, as the caller's label array gives it
ClassOf(z) == labels_in[z]

ClassSize(d) == Cardinality({z \in DOMAIN labels_in : labels_in[z] = d})

SmallestClassSize == Min({ClassSize(d) : d \in 0..(num_classes - 1)})

\* the pairs of the output that class d contributed with label lab
PairsOfClass(d, lab) ==
    {k \in 1..Len(pairs) : labels[k] = lab /\ ClassOf(pairs[k][1]) = d}

Alternating == \A k \in 1..Len(labels) : labels[k] = (IF k % 2 = 1 THEN 1 ELSE 0)

BalancedWith(n) ==
    /\ Len(pairs) = 2 * num_classes * n
    /\ Len(labels) = 2 * num_classes * n
    /\ \A d \in 0..(num_classes - 1) :
          /\ Cardinality(PairsOfClass(d, 1)) = n
          /\ Cardinality(PairsOfClass(d, 0)) = n
    /\ Alternating

\* C9 as stated: with n = (size of the smallest class) - 1, create_pairs returns
\* n pairs labelled 1 and n pairs labelled 0 per class, 20*n entries, labels
\* alternating 1, 0.  Fails when a class is empty (n = -1): the output is empty.
C9_AsStated == cp_pc = "done" => BalancedWith(SmallestClassSize - 1)

\* C9 amended: the same with n = max(0, (size of the smallest class) - 1); with
\* an empty class the loops do not run and the output is empty.
C9_Balanced ==
    cp_pc = "done" =>
        BalancedWith(IF SmallestClassSize >= 1 THEN SmallestClassSize - 1 ELSE 0)

C9_Witness == cp_pc = "done" /\ SmallestClassSize >= 3 /\ Len(pairs) >= 40

\* C10: in the output (and in every prefix of it built so far) a pair labelled 1
\* holds two samples of one class and a pair labelled 0 two samples of
\* different classes, whatever inc the generator returns.
C10_PairClasses ==
    \A k \in 1..Len(pairs) :
        /\ labels[k] = 1 => ClassOf(pairs[k][1]) = ClassOf(pairs[k][2])
        /\ labels[k] = 0 => ClassOf(pairs[k][1]) # ClassOf(pairs[k][2])

C10_Witness ==
    /\ cp_pc = "done"
    /\ \E k \in 1..Len(pairs) : labels[k] = 0 /\ ClassOf(pairs[k][2]) = 0
    /\ \E k \in 1..Len(pairs) : labels[k] = 1


(***************************************************************************)
(* Claims about RandomDataset                                              *)
(***************************************************************************)
\* C8: the constructed dataset holds total_samples samples and dataset[i] is the
\* sample built from the sequence drawn in the i-th iteration of the loop.
\* The code fills and appends one and the same dict in every iteration, so every
\* index returns the sample of the last iteration.
C8_EachIndexItsOwnSample ==
    ds_pc = "done" =>
        /\ DatasetLen = ds_args.total_samples
        /\ \A i \in 0..(DatasetLen - 1) : DatasetGetItem(i) = SampleItems(drawn[i + 1])

(***************************************************************************)
(* Claims about MultiHeadedAttention.__init__, clones and build_model      *)
(***************************************************************************)
Divisible(h, d_model) == h # 0 /\ d_model % h = 0

\* C3: with d_model not divisible by h the construction of MultiHeadedAttention
\* raises, no module exists and build_model returns nothing; with d_model % h = 0
\* the module is constructed with h * d_k = d_model.
C3_DivisibilityChecked ==
    LET h == bm_args.h
        d_model == bm_args.d_model
        attn == bm_locals.attn
    IN  /\ ~Divisible(h, d_model) =>
              /\ attn = Unset /\ bm_model = Unset /\ bm_ret = Unset
              /\ bm_pc \in {"attn", "AssertionError", "ZeroDivisionError"}
        /\ (Divisible(h, d_model) /\ bm_pc # "attn") =>
              /\ attn # Unset
              /\ attn[<<"h">>].val = h
              /\ attn[<<"d_k">>].val * h = d_model

C3_Witness ==
    /\ bm_pc = "AssertionError"
    /\ bm_args.d_model = 3 /\ bm_args.h = 2

\* C4: a call of MultiHeadedAttention.forward with a query [batch, q_len, d_model]
\* and key/value [batch, k_len, d_model] returns [batch, q_len, d_model], for
\* every head count the module could be constructed with and also when q_len
\* differs from k_len.
C4_OutputShape ==
    mha_calls > 0 =>
        /\ mha_in.query = <<mha_in.query[1], mha_in.query[2], mha_args.d_model>>
        /\ mha_in.key = <<mha_in.query[1], mha_in.key[2], mha_args.d_model>>
        /\ mha_out = <<mha_in.query[1], mha_in.query[2], mha_args.d_model>>

C4_Witness ==
    /\ mha_calls > 0
    /\ mha_args.h = 2 /\ mha_args.d_model = 4
    /\ mha_in.query[2] = 1 /\ mha_in.key[2] = 3
    /\ mha_out = <<mha_in.query[1], 1, 4>>

\* C5: EncoderDecoder.forward of a model build_model returned, on a source
\* [batch, src_len] and a target [batch, tgt_len], returns
\* [batch, tgt_len, target_vocabulary], whatever src_len and N are.
C5_ForwardShape ==
    bm_pc = "forwarded" =>
        fw_out = <<fw_in.target[1], fw_in.target[2], bm_args.target_vocabulary>>

C5_Witness ==
    /\ bm_pc = "forwarded"
    /\ bm_args.N = 2 /\ bm_args.h = 2 /\ bm_args.d_model = 4
    /\ bm_args.target_vocabulary # bm_args.source_vocabulary
    /\ fw_in.source[2] = 3 /\ fw_in.target[2] = 2
    /\ fw_out = <<fw_in.target[1], 2, bm_args.target_vocabulary>>

\* the model has been returned
Built == bm_pc \in {"done", "updated", "forwarded"}

\* no tensor object sits under two paths of the module: as many objects as paths
NoSharing(mod) ==
    Cardinality(RefsOf(mod)) = Cardinality(TensorPaths(mod))

\* the modules build_model copies or clones from
Templates ==
    {bm_locals.attn, bm_locals.ff, bm_locals.position,
     bm_locals.encoder_block, bm_locals.decoder_block}

\* the paths of the returned model whose tensor an action changes
ChangedPaths ==
    {p \in TensorPaths(bm_ret) : store'.objs[bm_ret[p].ref] # store.objs[bm_ret[p].ref]}

\* C6: in the returned model every layer has tensor objects of its own (no
\* object under two paths, none shared with a template that was copied or
\* cloned), so an in-place update of one parameter changes the tensor under
\* exactly one path.
C6_NoSharedParameters ==
    [][Built' =>
         /\ NoSharing(bm_ret')
         /\ \A t \in Templates' : RefsOf(t) \cap RefsOf(bm_ret') = {}
         /\ (bm_pc = "done" /\ bm_pc' = "updated") => Cardinality(ChangedPaths) = 1]_vars

C6_Witness == bm_pc = "updated" /\ bm_args.N = 2

\* the initialization draw behind the tensor a path of a module holds (0: none)
DrawAt(mod, p) == store.objs[mod[p].ref].draw

DimAt(mod, p) == Len(store.objs[mod[p].ref].shape)

\* every selected parameter of every block of the stack holds a draw of its own:
\* not the template's, not a sibling block's
OwnDraws(stack, template, N, Selected(_)) ==
    \A i \in 0..(N - 1) :
        LET bi == Sub(Sub(stack, "blocks"), ToString(i))
        IN  \A p \in {q \in TensorPaths(template) : Selected(q)} :
                /\ DrawAt(bi, p) # 0
                /\ DrawAt(bi, p) # DrawAt(template, p)
                /\ \A j \in 0..(N - 1) \ {i} :
                      DrawAt(bi, p) # DrawAt(Sub(Sub(stack, "blocks"), ToString(j)), p)

\* every selected parameter of every block holds the value deep-copied from the template
CopiedDraws(stack, template, N, Selected(_)) ==
    \A i \in 0..(N - 1) :
        LET bi == Sub(Sub(stack, "blocks"), ToString(i))
        IN  \A p \in {q \in TensorPaths(template) : Selected(q)} :
                DrawAt(bi, p) = DrawAt(template, p)

\* C7 as stated: after build_model returns, every parameter of every encoder
\* and decoder block comes from a draw made for that block.  Fails for the
\* one-dimensional parameters, which the Glorot loop skips.
C7_AsStated ==
    bm_pc = "done" =>
        LET All(p) == TRUE
        IN  /\ OwnDraws(Sub(bm_ret, "encoder"), bm_locals.encoder_block, bm_args.N, All)
            /\ OwnDraws(Sub(bm_ret, "decoder"), bm_locals.decoder_block, bm_args.N, All)

\* C7 amended: it holds for the parameters with more than one dimension (the
\* weight matrices); the one-dimensional ones (biases, a_2, b_2) keep the
\* values copied from the template.
C7_MatricesOwnDraws ==
    bm_pc = "done" =>
        LET enc == Sub(bm_ret, "encoder")
            dec == Sub(bm_ret, "decoder")
            Matrix(p) == DimAt(bm_locals.encoder_block @@ bm_locals.decoder_block, p) > 1
            Vector(p) == ~Matrix(p)
        IN  /\ OwnDraws(enc, bm_locals.encoder_block, bm_args.N, Matrix)
            /\ OwnDraws(dec, bm_locals.decoder_block, bm_args.N, Matrix)
            /\ CopiedDraws(enc, bm_locals.encoder_block, bm_args.N, Vector)
            /\ CopiedDraws(dec, bm_locals.decoder_block, bm_args.N, Vector)

C7_Witness == bm_pc = "done" /\ bm_args.N = 2

\* an L x L matrix of booleans
IsSquareMask(m, L) ==
    /\ DOMAIN m = 1..L
    /\ \A i \in 1..L : DOMAIN m[i] = 1..L /\ \A j \in 1..L : m[i][j] \in BOOLEAN

\* C15: make_std_mask(target, pad) returns, for a target of length L, an L x L
\* boolean mask whose entry (i, j) is true exactly when j <= i and
\* target[j] # pad; subsequent_mask(L)[i][j] is true exactly when j <= i.
C15_MaskEntries ==
    LET L == Len(sm_args.target)
    IN  /\ sm_pc = "make_std_mask" =>
              /\ IsSquareMask(sm_ret, L)
              /\ \A i, j \in 1..L :
                    sm_ret[i][j] <=> (j <= i /\ sm_args.target[j] # sm_args.pad)
        /\ sm_pc = "subsequent_mask" =>
              /\ IsSquareMask(sm_ret, L)
              /\ \A i, j \in 1..L : sm_ret[i][j] <=> j <= i

\* a target with a pad token in the middle: the diagonal is kept where the
\* token is not pad, and the pad's column is hidden from every row
C15_Witness ==
    /\ sm_pc = "make_std_mask"
    /\ Len(sm_args.target) = 3
    /\ sm_args.target[1] # sm_args.pad
    /\ sm_args.target[2] = sm_args.pad
    /\ sm_args.target[3] # sm_args.pad
    /\ sm_ret[3] = <<TRUE, FALSE, TRUE>>
    /\ sm_ret[1] = <<TRUE, FALSE, FALSE>>

\* C18: every sample RandomDataset builds with V >= 2 and sample_length >= 2
\* has all tokens in 1..V-1 with the first token 1, so no token is the pad
\* value, source_mask is all true and every row of target_mask has its first
\* entry true.
C18_SamplesUnmasked ==
    (ds_args.V >= 2 /\ ds_args.sample_length >= 2) =>
        \A k \in 1..Len(samples) :
            LET item == DatasetGetItem(k - 1)
                built == SampleItems(drawn[k])
                Ok(it) ==
                    /\ Len(it.source) = ds_args.sample_length
                    /\ \A j \in DOMAIN it.source : it.source[j] \in 1..(ds_args.V - 1)
                    /\ it.source[1] = 1 /\ it.target[1] = 1
                    /\ \A j \in DOMAIN it.source : it.source[j] # PadValue
                    /\ \A j \in DOMAIN it.target : it.target[j] # PadValue
                    /\ it.source_mask = << [j \in DOMAIN it.source |-> TRUE] >>
                    /\ DOMAIN it.target_mask = 1..(ds_args.sample_length - 1)
                    /\ \A i \in DOMAIN it.target_mask : it.target_mask[i][1]
            IN  Ok(item) /\ Ok(built)

C18_Witness ==
    /\ ds_pc = "done"
    /\ ds_args.V = 3 /\ ds_args.sample_length = 3
    /\ Len(samples) = 2
    /\ drawn[1] = <<1, 2, 1>>
    /\ DatasetGetItem(1).target_mask = << <<TRUE, FALSE>>, <<TRUE, TRUE>> >>

\* C14: attn is None from construction until the first forward call; after
\* any sequence of forward calls it is the weight tensor the most recent call
\* computed, and a call changes no other attribute of the module and no
\* parameter.
C14_KeepsLastWeights ==
    /\ [](mha_pc = "built" =>
            /\ mha_calls = 0 => mha_mod[<<"attn">>] = Val(Unset)
            /\ mha_calls > 0 =>
                  /\ mha_mod[<<"attn">>] =
                        Val(MHAForward(mha_store, mha_mod, mha_in.query, mha_in.key,
                                       mha_in.value, mha_in.mask).attn)
                  /\ mha_mod[<<"attn">>].val =
                        <<mha_in.query[1], mha_args.h, mha_in.query[2], mha_in.key[2]>>)
    /\ [][(mha_pc = "built" /\ mha_pc' = "built") =>
            /\ DOMAIN mha_mod' = DOMAIN mha_mod
            /\ \A p \in DOMAIN mha_mod \ {<<"attn">>} : mha_mod'[p] = mha_mod[p]
            /\ mha_store' = mha_store]_vars

\* a second call, whose weights have another shape than any one-position call's
C14_Witness ==
    /\ mha_pc = "built" /\ mha_calls = 2
    /\ mha_args.h = 2
    /\ mha_mod[<<"attn">>] = Val(<<1, 2, 2, 3>>)

\* the positions of the tape where the module under a path was called
EntriesOf(op, mod) ==
    {i \in DOMAIN fw_trace : fw_trace[i].op = op /\ fw_trace[i].mod = mod}

\* the one such position
EntryOf(op, mod) == CHOOSE i \in EntriesOf(op, mod) : TRUE

CalledOnce(op, mod) == Cardinality(EntriesOf(op, mod)) = 1

SublayerPath(stack, i, k) == BlockPath(stack, i) \o <<"sublayers", ToString(k)>>

\* the SublayerConnection modules of the model: 2 per encoder block, 3 per
\* decoder block
SublayerPaths ==
    {SublayerPath("encoder", i, k) : i \in 0..(bm_args.N - 1), k \in 0..1}
    \cup {SublayerPath("decoder", i, k) : i \in 0..(bm_args.N - 1), k \in 0..2}

\* the call of one SublayerConnection computed x + dropout(sublayer(norm(x)))
PreNormResidual(sc) ==
    /\ CalledOnce("add", sc)
    /\ CalledOnce("Dropout", sc \o <<"dropout">>)
    /\ CalledOnce("LayerNorm", sc \o <<"norm">>)
    /\ LET sum     == fw_trace[EntryOf("add", sc)]
           x       == sum.args[1]
           dropped == sum.args[2]
           y       == fw_trace[dropped].args[1]
           normed  == fw_trace[y].args[1]
       IN  /\ dropped = EntryOf("Dropout", sc \o <<"dropout">>)
           /\ fw_trace[y].op \in {"MultiHeadedAttention", "PositionwiseFFN"}
           /\ normed = EntryOf("LayerNorm", sc \o <<"norm">>)
           /\ fw_trace[normed].args = <<x>>
           /\ fw_trace[x].op \in {"Sequential", "add"}
           /\ x < normed /\ normed < y /\ y < dropped /\ dropped < EntryOf("add", sc)
           /\ IsShape(fw_trace[x].shape)
           /\ fw_trace[y].shape = fw_trace[x].shape
           /\ sum.shape = fw_trace[x].shape

\* C12: every SublayerConnection call of a forward pass (2 per encoder block,
\* 3 per decoder block) computes x + dropout(sublayer(norm(x))): the sublayer
\* receives norm(x), dropout is applied to what the sublayer returned, the
\* residual added is the unnormalized x, and the result has the shape of x.
C12_PreNormResidual ==
    bm_pc = "forwarded" =>
        /\ \A sc \in SublayerPaths : PreNormResidual(sc)
        /\ Cardinality({i \in DOMAIN fw_trace : fw_trace[i].op = "add"}) = 5 * bm_args.N

C12_Witness ==
    /\ bm_pc = "forwarded"
    /\ bm_args.N = 2 /\ bm_args.d_model = 4 /\ bm_args.h = 2
    /\ fw_trace[EntryOf("add", SublayerPath("decoder", 1, 2))].shape = <<2, 3, 4>>
    /\ fw_trace[1].shape = <<2, 1>>

\* the three module calls of decoder block i, and the two of encoder block i
SelfAttnOf(stack, i) == EntryOf("MultiHeadedAttention", BlockPath(stack, i) \o <<"self_attn">>)

EncAttnOf(i) == EntryOf("MultiHeadedAttention", BlockPath("decoder", i) \o <<"encoder_attn">>)

FfnOf(stack, i) == EntryOf("PositionwiseFFN", BlockPath(stack, i) \o <<"ffn">>)

\* the value a block returned: what its last SublayerConnection added up
BlockOutput(stack, i) ==
    EntryOf("add", SublayerPath(stack, i, IF stack = "encoder" THEN 1 ELSE 2))

\* the value a block received: what the norm of its first SublayerConnection was given
BlockInput(stack, i) ==
    fw_trace[EntryOf("LayerNorm", SublayerPath(stack, i, 0) \o <<"norm">>)].args[1]

\* C13: the encoder runs to completion before the decoder starts; the encoder
\* applies its N blocks in list order (self-attention, then feed-forward) and
\* one final norm; the decoder applies its N blocks in list order (masked
\* self-attention, cross-attention, feed-forward), then norm, projection and
\* log_softmax; every decoder block's cross-attention has the decoder state as
\* query and the final encoder output as key and value, and all blocks get the
\* same source and target masks.
C13_EncoderThenDecoder ==
    bm_pc = "forwarded" =>
        LET N == bm_args.N
            last == Len(fw_trace)
            Blocks == 0..(N - 1)
            encoder_output == EntryOf("LayerNorm", <<"encoder", "norm">>)
            source_embedded == EntryOf("Sequential", <<"source_embeddings">>)
            target_embedded == EntryOf("Sequential", <<"target_embeddings">>)
        IN  /\ last = 4 + 2 + 8 * N + 12 * N + 4
            /\ CalledOnce("LayerNorm", <<"encoder", "norm">>)
            /\ CalledOnce("Sequential", <<"source_embeddings">>)
            /\ CalledOnce("Sequential", <<"target_embeddings">>)
            /\ fw_trace[source_embedded].args = <<1>>
            /\ fw_trace[target_embedded].args = <<2>>
            \* the encoder, and only the encoder, before its final norm
            /\ \A i \in 5..last :
                  (i <= encoder_output) <=>
                      fw_trace[i].mod[1] \in {"source_embeddings", "encoder"}
            /\ \A i \in 5..last :
                  (i > encoder_output) <=>
                      fw_trace[i].mod[1] \in {"target_embeddings", "decoder"}
            \* encoder blocks in list order
            /\ \A i \in Blocks :
                  /\ CalledOnce("MultiHeadedAttention", BlockPath("encoder", i) \o <<"self_attn">>)
                  /\ CalledOnce("PositionwiseFFN", BlockPath("encoder", i) \o <<"ffn">>)
                  /\ SelfAttnOf("encoder", i) < FfnOf("encoder", i)
                  /\ fw_trace[SelfAttnOf("encoder", i)].args[4] = 3
                  /\ BlockInput("encoder", i) =
                        (IF i = 0 THEN source_embedded ELSE BlockOutput("encoder", i - 1))
                  /\ i > 0 => FfnOf("encoder", i - 1) < SelfAttnOf("encoder", i)
            /\ fw_trace[encoder_output].args =
                   <<IF N = 0 THEN source_embedded ELSE BlockOutput("encoder", N - 1)>>
            \* decoder blocks in list order
            /\ \A i \in Blocks :
                  /\ CalledOnce("MultiHeadedAttention", BlockPath("decoder", i) \o <<"self_attn">>)
                  /\ CalledOnce("MultiHeadedAttention", BlockPath("decoder", i) \o <<"encoder_attn">>)
                  /\ CalledOnce("PositionwiseFFN", BlockPath("decoder", i) \o <<"ffn">>)
                  /\ SelfAttnOf("decoder", i) < EncAttnOf(i)
                  /\ EncAttnOf(i) < FfnOf("decoder", i)
                  /\ fw_trace[SelfAttnOf("decoder", i)].args[4] = 4
                  /\ fw_trace[EncAttnOf(i)].args =
                        <<EntryOf("LayerNorm", SublayerPath("decoder", i, 1) \o <<"norm">>),
                          encoder_output, encoder_output, 3>>
                  /\ BlockInput("decoder", i) =
                        (IF i = 0 THEN target_embedded ELSE BlockOutput("decoder", i - 1))
                  /\ i > 0 => FfnOf("decoder", i - 1) < SelfAttnOf("decoder", i)
            \* norm, projection, log_softmax close the pass
            /\ fw_trace[last - 2].op = "LayerNorm"
            /\ fw_trace[last - 2].mod = <<"decoder", "norm">>
            /\ fw_trace[last - 2].args =
                   <<IF N = 0 THEN target_embedded ELSE BlockOutput("decoder", N - 1)>>
            /\ fw_trace[last - 1].op = "Linear"
            /\ fw_trace[last - 1].mod = <<"decoder", "projection">>
            /\ fw_trace[last - 1].args = <<last - 2>>
            /\ fw_trace[last].op = "log_softmax"
            /\ fw_trace[last].args = <<last - 1>>
            /\ fw_trace[last].shape = fw_out

C13_Witness ==
    /\ bm_pc = "forwarded"
    /\ bm_args.N = 2
    /\ Len(fw_trace) = 50
    /\ fw_trace[EncAttnOf(1)].args[2] = EntryOf("LayerNorm", <<"encoder", "norm">>)
    /\ fw_trace[3].shape = <<1, 1, 3>> /\ fw_trace[4].shape = <<1, 2, 2>>

\* the calls train_model makes for one batch, in the order of the claim
BatchCalls == <<"forward", "loss", "backward", "step", "zero_grad">>

IsCall(j, name) == tr_events[j][1] = name

\* the number of calls of the given name logged at positions a..b
CallsBetween(name, a, b) == Cardinality({j \in a..b : IsCall(j, name)})

\* two optimizer.step calls with no other between them
ConsecutiveSteps(a, b) ==
    /\ IsCall(a, "step")
    /\ a < b
    /\ IsCall(b, "step")
    /\ \A j \in (a + 1)..(b - 1) : ~IsCall(j, "step")

\* C16: train_model serializes updates and forward passes: for every batch k
\* the calls come in the order forward(k), loss(k), backward(k), step(k),
\* zero_grad(k), and forward(k+1) only after zero_grad(k); between two
\* consecutive optimizer.step calls there is exactly one forward, one backward
\* and one zero_grad; no parameter is updated while a forward pass reads them.
C16_UpdatesSerialized ==
    /\ [](/\ \A j \in DOMAIN tr_events :
                tr_events[j] = <<BatchCalls[((j - 1) % 5) + 1], ((j - 1) \div 5) + 1>>
          /\ Len(tr_events) <= 5 * tr_batches
          /\ (tr_pc = "done" => Len(tr_events) = 5 * tr_batches)
          /\ \A a \in {j \in DOMAIN tr_events : IsCall(j, "step")} :
             \A b \in (a + 1)..Len(tr_events) :
                ConsecutiveSteps(a, b) =>
                    \A name \in {"forward", "backward", "zero_grad"} :
                        CallsBetween(name, a, b) = 1
          /\ (tr_reading => tr_pc = "forwarding")
          /\ (tr_reading => tr_out = tr_params)
          /\ tr_params = CallsBetween("step", 1, Len(tr_events)))
    /\ [][tr_params' # tr_params =>
             /\ ~tr_reading /\ ~tr_reading'
             /\ tr_grad = 1
             /\ tr_events' = Append(tr_events, <<"step", tr_i + 1>>)]_vars
    /\ [][(tr_reading /\ ~tr_reading') => (tr_params' = tr_params /\ tr_out' = tr_params)]_vars

C16_Witness ==
    /\ tr_pc = "forwarding"
    /\ tr_reading
    /\ tr_i = 2
    /\ tr_params = 2
    /\ Len(tr_events) = 11
    /\ tr_events[9] = <<"step", 2>>
    /\ tr_events[11] = <<"forward", 3>>

\* the number of loop iterations that have ended
Finished == IF tr_pc \in {"called", "for", "done"} THEN tr_next ELSE tr_next - 1

\* the sum of the losses of batches a..b (1-based)
LossSum(a, b) == SumSeq(SubSeq(tr_losses, a, b))

\* C17: a loss report is printed exactly after the batches whose 1-based
\* number is a multiple of 5; each report shows the mean loss of exactly the
\* five batches since the previous report; at the end of every loop iteration
\* counter is in 0..4 and current_loss is the sum of the losses of the last
\* counter batches; a loader of K batches gives exactly floor(K/5) reports.
C17_ReportEveryFive ==
    /\ [](tr_pc \notin {"idle", "called"} =>
            /\ Len(tr_printed) = Finished \div 5
            /\ \A r \in DOMAIN tr_printed :
                  /\ tr_printed[r].batch = 5 * r
                  /\ tr_printed[r].loss = TrueDiv(LossSum(5 * r - 4, 5 * r), 5)
            /\ (tr_pc \in {"for", "done"} =>
                  /\ counter \in 0..4
                  /\ counter = Finished % 5
                  /\ current_loss = LossSum(Finished - counter + 1, Finished))
            /\ (tr_pc = "done" =>
                  /\ Finished = tr_batches
                  /\ Len(tr_printed) = tr_batches \div 5))
    /\ [][tr_printed' # tr_printed =>
             /\ tr_pc = "statistics"
             /\ (tr_i + 1) % 5 = 0
             /\ Len(tr_printed') = Len(tr_printed) + 1]_vars
    /\ [][(tr_pc = "statistics" /\ tr_pc' # tr_pc /\ (tr_i + 1) % 5 = 0) =>
             tr_printed' # tr_printed]_vars

C17_Witness ==
    /\ tr_pc = "done"
    /\ tr_batches = 11
    /\ Len(tr_printed) = 2
    /\ tr_printed[1] = [batch |-> 5, loss |-> <<7, 5>>]
    /\ tr_printed[2] = [batch |-> 10, loss |-> <<3, 1>>]
    /\ counter = 1
    /\ current_loss = 3

RECURSIVE RunAlone(_, _, _)
\* the result of a forward pass run on its own from attention call k on: the
\* activations it ends with and the self.attn of every module it called
RunAlone(k, x, attn) ==
    IF k > 3 * cf_args.N THEN [x |-> x, attn |-> attn]
    ELSE LET call == AttentionCalls(cf_args.N)[k]
         IN  TheOne({RunAlone(k + 1, AfterAttention(x, call, r),
                              [attn EXCEPT ![call.mod] = Val(r.attn)]) :
                        r \in {AttentionResult(cf_store, cf_mha, call, x)}})

\* pass p run alone on the model
Alone(p) ==
    RunAlone(1, PassTensors(cf_in[p], cf_args.d_model),
             [m \in DOMAIN cf_attn |-> Val(Unset)])

BothDone == cf_pc # Unset /\ \A p \in Passes : cf_pc[p].at = "done"

\* C11 (as stated): two forward passes run concurrently on one model are
\* safe: each returns what it returns when run alone, no parameter tensor is
\* written, and the state the model holds after both have finished is the
\* state one of the two sequential orders leaves.
C11_AsStated ==
    BothDone =>
        /\ \A p \in Passes : cf_out[p] = Alone(p).x.target
        /\ cf_store = MultiHeadedAttention(EmptyStore, cf_args.h, cf_args.d_model).st
        /\ \E p \in Passes : cf_attn = Alone(p).attn

====
